---- MODULE Spec2Model ----
(***************************************************************************)
(* Incremental layout reconciliation of the folder canvas.                 *)
(*                                                                         *)
(* The model follows src/src/components/canvas/FolderCanvas.tsx (the       *)
(* FlowCanvas component: the reconciliation effect, applyTreeLayout and    *)
(* the drag handlers), src/src/store/useFlowStore.ts (the zustand store)   *)
(* and convertToReactFlowNodes of the utilities file.                      *)
(*                                                                         *)
(* Coordinates are integers in tenths of a canvas unit (PosScale), so that *)
(* the 0.5-unit drag threshold and sub-unit drag offsets are exact.        *)
(***************************************************************************)
EXTENDS Integers, Sequences, FiniteSets, TLC

(***************************************************************************)
(* Bounds of the model.                                                    *)
(***************************************************************************)
\* number of onNodeDrag events over a run
MaxDragEvents == 1
\* number of drag stops whose timers may be pending at once
MaxPendingStops == 1
\* number of loadConnectorRoot completions over a run
MaxLoads == 2
\* onNodeDrag events, and drag stops whose timers are pending, where one drag
\* follows another
MaxFollowingDrags == 2
\* number of onMove events over a run
MaxMoves == 3
\* resolution of the clock of the viewport timers, in ms
TickMs == 50
\* number of nodes handed to the layout without edges
MaxRowNodes == 3
\* number of children in one connector response
MaxChildren == 2
\* largest render cap below MAX_RENDERED_NODES the conversion is run under
MaxScaledCap == 4
\* length of a typed search query, in characters
MaxQueryLen == 2
\* number of applySearchQuery calls over a run
MaxSearches == 3
\* number of runs of the effect followed from one change of the store
MaxPassChain == 4

(***************************************************************************)
(* Program constants.                                                      *)
(***************************************************************************)
PosScale == 10
nodeWidth == 140 * PosScale
nodeHeight == 50 * PosScale
MAX_RENDERED_NODES == 1000

\* the ids the external providers hand out in this model: the directory
\* R -> [A, B], A -> [C] and one search match D that is not in the directory
NodeIds == {"R", "A", "B", "C", "D"}
DirectoryChildren ==
  [n \in NodeIds |->
     CASE n = "R" -> <<"A", "B">>
       [] n = "A" -> <<"C">>
       [] OTHER -> <<>>]

ZeroPos == [x |-> 0, y |-> 0]
NonZero(p) == p.x # 0 \/ p.y # 0

Abs(v) == IF v < 0 THEN 0 - v ELSE v

SeqToSet(s) == {s[i] : i \in 1..Len(s)}

IndexOf(s, e) == CHOOSE i \in 1..Len(s) : s[i] = e

(***************************************************************************)
(* The store's forest (FlowState.nodes).  The forest is kept as an arena:  *)
(* the ordered root ids and, per node id, the ordered child ids, the       *)
(* expanded flag and the position.  Ids that are not in the forest carry   *)
(* the default fields.                                                     *)
(***************************************************************************)
EmptyForest ==
  [roots |-> <<>>,
   children |-> [n \in NodeIds |-> <<>>],
   expanded |-> [n \in NodeIds |-> FALSE],
   position |-> [n \in NodeIds |-> ZeroPos]]

\* every id of the subtree lists, collapsed branches included, in pre-order
RECURSIVE TreeIds(_, _)
TreeIds(f, list) ==
  IF list = <<>> THEN <<>>
  ELSE <<Head(list)>> \o TreeIds(f, f.children[Head(list)]) \o TreeIds(f, Tail(list))

ForestIds(f) == SeqToSet(TreeIds(f, f.roots))

findNodeById(f, id) == id \in ForestIds(f)

\* an update that moves the node's whole subtree to the position
updateNodeInTreePositionSubtree(f, id, p) ==
  IF findNodeById(f, id)
  THEN [nodes |-> [f EXCEPT !.position =
                              [n \in NodeIds |->
                                 IF n \in SeqToSet(TreeIds(f, <<id>>)) THEN p
                                 ELSE f.position[n]]],
        changed |-> TRUE]
  ELSE [nodes |-> f, changed |-> FALSE]

\* updateNodeInTree(nodes, id, updater) for the position updater: changed
\* is true exactly when the id is in the forest
updateNodeInTreePosition(f, id, p) ==
  IF findNodeById(f, id)
  THEN [nodes |-> [f EXCEPT !.position[id] = p], changed |-> TRUE]
  ELSE [nodes |-> f, changed |-> FALSE]

updateNodeInTreeExpanded(f, id, e) ==
  IF findNodeById(f, id)
  THEN [nodes |-> [f EXCEPT !.expanded[id] = e], changed |-> TRUE]
  ELSE [nodes |-> f, changed |-> FALSE]

\* a setExpandedForTree that also forgets the positions
setExpandedForTreeResetting(f, e) ==
  [f EXCEPT !.expanded =
              [n \in NodeIds |->
                 IF n \in SeqToSet(f.roots) THEN TRUE
                 ELSE IF n \in ForestIds(f) THEN e ELSE FALSE],
            !.position = [n \in NodeIds |-> ZeroPos]]

\* setExpandedForTree: roots expanded, every other node set to the flag
setExpandedForTree(f, e) ==
  [f EXCEPT !.expanded =
     [n \in NodeIds |->
        IF n \in SeqToSet(f.roots) THEN TRUE
        ELSE IF n \in ForestIds(f) THEN e ELSE FALSE]]

\* an expansion of the matching nodes themselves only
expandNodesForMatchesOnly(f, matchSet) ==
  [f EXCEPT !.expanded =
     [n \in NodeIds |->
        IF n \in ForestIds(f) /\ n \in matchSet /\ f.children[n] # <<>>
        THEN TRUE
        ELSE f.expanded[n]]]

\* expandNodesForMatches: a node that has children and a match in its
\* subtree, itself included, is expanded; every other field is kept
expandNodesForMatches(f, matchSet) ==
  [f EXCEPT !.expanded =
     [n \in NodeIds |->
        IF /\ n \in ForestIds(f)
           /\ SeqToSet(TreeIds(f, <<n>>)) \cap matchSet # {}
           /\ f.children[n] # <<>>
        THEN TRUE
        ELSE f.expanded[n]]]

\* updateNodePosition: the nodes updateNodeInTree hands back are the new
\* state.nodes; changed is false exactly when that is the array it was given
updateNodePosition(f, id, p) == updateNodeInTreePosition(f, id, p)

\* the names of the folders, strings as sequences of characters
NodeName ==
  [n \in NodeIds |->
     CASE n = "R" -> <<"A", "b">>
       [] n = "A" -> <<"a">>
       [] n = "B" -> <<"b", "a">>
       [] n = "C" -> <<"B", "A", "b">>
       [] OTHER -> <<"a", " ", "b">>]

\* String.prototype.toLowerCase
toLowerCase(str) ==
  [i \in 1..Len(str) |->
     CASE str[i] = "A" -> "a"
       [] str[i] = "B" -> "b"
       [] OTHER -> str[i]]

\* String.prototype.trim
RECURSIVE trimStart(_)
trimStart(str) ==
  IF str # <<>> /\ Head(str) = " " THEN trimStart(Tail(str)) ELSE str

RECURSIVE trimEnd(_)
trimEnd(str) ==
  IF str # <<>> /\ str[Len(str)] = " " THEN trimEnd(SubSeq(str, 1, Len(str) - 1)) ELSE str

trim(str) == trimEnd(trimStart(str))

\* String.prototype.includes
includes(str, part) ==
  \E start \in 1..(Len(str) - Len(part) + 1) :
    SubSeq(str, start, start + Len(part) - 1) = part

\* collectMatchingNodes: the whole tree in pre-order, collapsed branches
\* included
collectMatchingNodes(f, query) ==
  SelectSeq(TreeIds(f, f.roots),
            LAMBDA n : includes(toLowerCase(NodeName[n]), toLowerCase(query)))

\* applySearchQueryToState: the fields of the state after the update (nodes
\* is state.nodes itself where the update does not set it)
applySearchQueryToState(f, query) ==
  LET trimmed == trim(query)
  IN IF trimmed = <<>>
     THEN [nodes |-> f,
           searchQuery |-> <<>>,
           highlightedNodeIds |-> <<>>,
           activeSearchIndex |-> -1]
     ELSE LET matches == collectMatchingNodes(f, trimmed)
              matchSet == SeqToSet(matches)
          IN [nodes |-> IF Len(matches) > 0 THEN expandNodesForMatches(f, matchSet) ELSE f,
              searchQuery |-> query,
              highlightedNodeIds |-> matches,
              activeSearchIndex |-> IF Len(matches) > 0 THEN 0 ELSE -1]

\* convertDirectoryResponse applied to the directory: every node expanded,
\* position (0, 0)
convertDirectoryResponse ==
  [roots |-> <<"R">>,
   children |-> DirectoryChildren,
   expanded |-> [n \in NodeIds |-> n \in {"R", "A", "B", "C"}],
   position |-> [n \in NodeIds |-> ZeroPos]]

\* createNodeFromSearchMatch: a root without children, collapsed, at (0, 0)
createNodeFromSearchMatch(f, id) ==
  [f EXCEPT !.roots = Append(f.roots, id),
            !.children[id] = <<>>,
            !.expanded[id] = FALSE,
            !.position[id] = ZeroPos]

(***************************************************************************)
(* convertToReactFlowNodes: the visible forest in pre-order, cut at the    *)
(* render cap, and its (parent, child) edges.                              *)
(***************************************************************************)
\* a conversion that descends into collapsed nodes as well
RECURSIVE ConvertListCollapsedToo(_, _, _, _, _)
ConvertListCollapsedToo(f, list, parentId, cap, acc) ==
  IF list = <<>> THEN acc
  ELSE
    LET node == Head(list)
        pushed ==
          [nodes |-> Append(acc.nodes, [id |-> node, position |-> f.position[node]]),
           edges |-> IF parentId # ""
                     THEN Append(acc.edges, [source |-> parentId, target |-> node])
                     ELSE acc.edges]
    IN IF Len(acc.nodes) >= cap
       THEN ConvertListCollapsedToo(f, Tail(list), parentId, cap, acc)
       ELSE ConvertListCollapsedToo(f, Tail(list), parentId, cap,
              IF Len(pushed.nodes) < cap
              THEN ConvertListCollapsedToo(f, f.children[node], node, cap, pushed)
              ELSE pushed)

\* a conversion without the render cap
RECURSIVE ConvertListUncapped(_, _, _, _, _)
ConvertListUncapped(f, list, parentId, cap, acc) ==
  IF list = <<>> THEN acc
  ELSE
    LET node == Head(list)
        pushed ==
          [nodes |-> Append(acc.nodes, [id |-> node, position |-> f.position[node]]),
           edges |-> IF parentId # ""
                     THEN Append(acc.edges, [source |-> parentId, target |-> node])
                     ELSE acc.edges]
    IN ConvertListUncapped(f, Tail(list), parentId, cap,
         IF f.expanded[node]
         THEN ConvertListUncapped(f, f.children[node], node, cap, pushed)
         ELSE pushed)

RECURSIVE ConvertList(_, _, _, _, _)
ConvertList(f, list, parentId, cap, acc) ==
  IF list = <<>> THEN acc
  ELSE
    LET node == Head(list)
        rest == Tail(list)
    IN IF Len(acc.nodes) >= cap
       THEN ConvertList(f, rest, parentId, cap, acc)
       ELSE
         LET pushed ==
               [nodes |-> Append(acc.nodes, [id |-> node, position |-> f.position[node]]),
                edges |-> IF parentId # ""
                          THEN Append(acc.edges, [source |-> parentId, target |-> node])
                          ELSE acc.edges]
             withChildren ==
               IF /\ f.children[node] # <<>>
                  /\ f.expanded[node]
                  /\ Len(pushed.nodes) < cap
               THEN ConvertList(f, f.children[node], node, cap, pushed)
               ELSE pushed
         IN ConvertList(f, rest, parentId, cap, withChildren)

convertToReactFlowNodes(f) ==
  ConvertList(f, f.roots, "", MAX_RENDERED_NODES, [nodes |-> <<>>, edges |-> <<>>])

Ids(nodeList) == {nodeList[i].id : i \in 1..Len(nodeList)}

\* Map lookup over a node list (new Map(list.map(n => [n.id, n])).get(id));
\* ids are unique in every list the model builds
NodeOf(nodeList, id) == CHOOSE n \in SeqToSet(nodeList) : n.id = id

(***************************************************************************)
(* The structural signature (createNodeSignature): one (id, children,      *)
(* expanded) entry per element of the store's nodes array.  The cached     *)
(* signature '' is the empty sequence; a non-empty forest never has it.    *)
(***************************************************************************)
EmptySignature == <<>>

createNodeSignature(f) ==
  [i \in 1..Len(f.roots) |->
     [id |-> f.roots[i],
      children |-> Len(f.children[f.roots[i]]),
      expanded |-> f.expanded[f.roots[i]]]]

\* a rounding of v / 50 toward minus infinity
Round50Truncating(v) == v \div (50 * PosScale)

\* Math.round(v / 50) on a coordinate given in tenths
Round50(v) == (v + 25 * PosScale) \div (50 * PosScale)

checkIfStacked(nodeList) ==
  IF Len(nodeList) <= 1 THEN FALSE
  ELSE LET uniquePositions ==
             {<<Round50(nodeList[i].position.x), Round50(nodeList[i].position.y)>> :
                i \in 1..Len(nodeList)}
       IN 2 * Cardinality(uniquePositions) < Len(nodeList)

(***************************************************************************)
(* dagre.layout on a forest with rankdir LR, align UL, ranker tight-tree.  *)
(* Rank is the depth below the sub-forest's own roots; the order inside a  *)
(* rank is the depth-first order from the roots; the along-axis centre is  *)
(* rank * (width + ranksep) + width / 2; on the cross-axis a first child   *)
(* is aligned with its parent (one block) and every block is placed        *)
(* height + nodesep below the block of the node that precedes one of its   *)
(* members in a rank; the graph is translated so that the least top-left   *)
(* corner is (0, 0).                                                       *)
(***************************************************************************)
GraphChildren(edges, v) ==
  LET es == SelectSeq(edges, LAMBDA e : e.source = v)
  IN [i \in 1..Len(es) |-> es[i].target]

HasParent(edges, v) == \E i \in 1..Len(edges) : edges[i].target = v

GraphParent(edges, v) ==
  edges[CHOOSE i \in 1..Len(edges) : edges[i].target = v].source

RECURSIVE DagreRank(_, _)
DagreRank(edges, v) ==
  IF HasParent(edges, v) THEN DagreRank(edges, GraphParent(edges, v)) + 1 ELSE 0

RECURSIVE DagreDfs(_, _)
DagreDfs(edges, list) ==
  IF list = <<>> THEN <<>>
  ELSE <<Head(list)>> \o DagreDfs(edges, GraphChildren(edges, Head(list)))
                      \o DagreDfs(edges, Tail(list))

DagreOrder(ids, edges) ==
  DagreDfs(edges, SelectSeq(ids, LAMBDA v : ~HasParent(edges, v)))

\* the layer of v, in order
DagreLayer(ids, edges, v) ==
  SelectSeq(DagreOrder(ids, edges),
            LAMBDA u : DagreRank(edges, u) = DagreRank(edges, v))

IsFirstChild(edges, v) ==
  HasParent(edges, v) /\ GraphChildren(edges, GraphParent(edges, v))[1] = v

RECURSIVE BlockRoot(_, _)
BlockRoot(edges, v) ==
  IF IsFirstChild(edges, v) THEN BlockRoot(edges, GraphParent(edges, v)) ELSE v

SetMax(S) == CHOOSE m \in S : \A s \in S : s <= m

RECURSIVE BlockOffset(_, _, _, _)
BlockOffset(ids, edges, root, sep) ==
  LET members == {u \in SeqToSet(ids) : BlockRoot(edges, u) = root}
      withPred == {u \in members : IndexOf(DagreLayer(ids, edges, u), u) > 1}
      predOf(u) ==
        LET layer == DagreLayer(ids, edges, u) IN layer[IndexOf(layer, u) - 1]
  IN SetMax({0} \cup
            {BlockOffset(ids, edges, BlockRoot(edges, predOf(u)), sep) + sep : u \in withPred})

\* a layout that ranks the nodes and leaves them all on one line
DagreLayoutOneLine(ids, edges, nodesep, ranksep) ==
  [v \in SeqToSet(ids) |->
     [x |-> DagreRank(edges, v) * (nodeWidth + ranksep) + nodeWidth \div 2,
      y |-> nodeHeight \div 2]]

\* id -> centre coordinates, as dagreGraph.node(id) returns them
DagreLayout(ids, edges, nodesep, ranksep) ==
  [v \in SeqToSet(ids) |->
     [x |-> DagreRank(edges, v) * (nodeWidth + ranksep) + nodeWidth \div 2,
      y |-> BlockOffset(ids, edges, BlockRoot(edges, v), nodeHeight + nodesep)
              + nodeHeight \div 2]]

(***************************************************************************)
(* applyTreeLayout(nodes, edges, preservePositions, fixedNodeIds).         *)
(* manual is manuallyMovedNodesRef.current; an undefined fixedNodeIds is   *)
(* the empty set.                                                          *)
(***************************************************************************)
RECURSIVE addDescendants(_, _)
addDescendants(edges, nodeId) ==
  {nodeId} \cup UNION {addDescendants(edges, c) : c \in SeqToSet(GraphChildren(edges, nodeId))}

nodesToPreserve(nodeList, edges, fixed, manual) ==
  UNION {addDescendants(edges, m) : m \in manual}
    \cup fixed
    \cup {c \in Ids(nodeList) : \E p \in fixed : c \in SeqToSet(GraphChildren(edges, p))}

TopLeft(centre) ==
  [x |-> centre.x - nodeWidth \div 2, y |-> centre.y - nodeHeight \div 2]

\* nodesep of the full layout, from the number of nodes
\* a sibling spacing that does not grow with the tree
nodesepForTight(totalNodes) == 60 * PosScale

nodesepFor(totalNodes) ==
  IF totalNodes > 50 THEN 100 * PosScale
  ELSE IF totalNodes > 20 THEN 80 * PosScale ELSE 60 * PosScale

\* ranksep of the full layout, from the largest number of children
ranksepFor(maxChildren) ==
  IF maxChildren > 10 THEN 80 * PosScale
  ELSE IF maxChildren > 5 THEN 60 * PosScale ELSE 40 * PosScale

\* a zero-edge branch that returns the nodes where they are
rowLayoutKeeping(nodeList) == nodeList

\* the zero-edge row
rowLayout(nodeList) ==
  [i \in 1..Len(nodeList) |->
     [nodeList[i] EXCEPT !.position = [x |-> (i - 1) * 250 * PosScale, y |-> 100 * PosScale]]]

fullDagreLayout(nodeList, edges) ==
  LET ids == [i \in 1..Len(nodeList) |-> nodeList[i].id]
      maxChildren ==
        SetMax({0} \cup {Len(GraphChildren(edges, edges[i].source)) : i \in 1..Len(edges)})
      g == DagreLayout(ids, edges, nodesepFor(Len(nodeList)), ranksepFor(maxChildren))
  IN [i \in 1..Len(nodeList) |->
        [nodeList[i] EXCEPT !.position = TopLeft(g[nodeList[i].id])]]

applyTreeLayout(nodeList, edges, preservePositions, fixed, manual) ==
  IF nodeList = <<>> THEN nodeList
  ELSE IF edges = <<>> THEN rowLayout(nodeList)
  ELSE
    LET keep == nodesToPreserve(nodeList, edges, fixed, manual)
        nodesToLayout == SelectSeq(nodeList, LAMBDA n : n.id \notin keep)
        edgesToLayout ==
          SelectSeq(edges, LAMBDA e : e.source \notin keep /\ e.target \notin keep)
    IN IF /\ preservePositions
          /\ keep # {}
          /\ nodesToLayout # <<>>
          /\ edgesToLayout # <<>>
       THEN LET ids == [i \in 1..Len(nodesToLayout) |-> nodesToLayout[i].id]
                g == DagreLayout(ids, edgesToLayout, 80 * PosScale, 60 * PosScale)
            IN [i \in 1..Len(nodeList) |->
                  IF nodeList[i].id \in keep THEN nodeList[i]
                  ELSE [nodeList[i] EXCEPT !.position = TopLeft(g[nodeList[i].id])]]
       ELSE fullDagreLayout(nodeList, edges)

(***************************************************************************)
(* The pieces of the reconciliation effect.                                *)
(***************************************************************************)
HasPrev(prev, id) == \E i \in 1..Len(prev) : prev[i].id = id
PrevExpanded(prev, id) == \E i \in 1..Len(prev) : prev[i].id = id /\ prev[i].expanded

\* fixedNodeIds: roots known to the cached signature, and for a root that was
\* expanded its positioned children and their positioned children
fixedNodeIds(f, prev) ==
  IF createNodeSignature(f) # prev /\ prev # EmptySignature
  THEN UNION
         {IF HasPrev(prev, r)
          THEN {r} \cup
               (IF PrevExpanded(prev, r)
                THEN UNION
                       {IF NonZero(f.position[c])
                        THEN {c} \cup
                             (IF f.expanded[c]
                              THEN {g \in SeqToSet(f.children[c]) : NonZero(f.position[g])}
                              ELSE {})
                        ELSE {} : c \in SeqToSet(f.children[r])}
                ELSE {})
          ELSE {} : r \in SeqToSet(f.roots)}
  ELSE {}

\* collectVisibleIds: every element of the list, and below an element that
\* the cached signature records as expanded, its children
RECURSIVE collectVisibleIds(_, _, _)
collectVisibleIds(f, prev, list) ==
  IF list = <<>> THEN {}
  ELSE {Head(list)}
         \cup (IF PrevExpanded(prev, Head(list))
               THEN collectVisibleIds(f, prev, f.children[Head(list)])
               ELSE {})
         \cup collectVisibleIds(f, prev, Tail(list))

previouslyVisibleInRender(f, prev) ==
  IF prev # EmptySignature THEN collectVisibleIds(f, prev, f.roots) ELSE {}

\* nodesWithStorePositions: findStoreNode finds every rendered id in the
\* forest, so each rendered node carries its stored position
nodesWithStorePositions(f) ==
  LET rf == convertToReactFlowNodes(f).nodes
  IN [i \in 1..Len(rf) |-> [rf[i] EXCEPT !.position = f.position[rf[i].id]]]

\* a layout test that looks at the drag refs alone
needsLayoutWheneverIdle(f, prev, dragging, justFinished) ==
  ~dragging /\ ~justFinished

\* an expand/collapse test that does not look at isInitialLoad
isJustExpandCollapseOnFirstLoad(f, prev) ==
  /\ createNodeSignature(f) # prev
  /\ ~checkIfStacked(nodesWithStorePositions(f))

isJustExpandCollapse(f, prev) ==
  /\ createNodeSignature(f) # prev
  /\ prev # EmptySignature
  /\ ~checkIfStacked(nodesWithStorePositions(f))

needsLayout(f, prev, dragging, justFinished) ==
  /\ createNodeSignature(f) # prev \/ checkIfStacked(nodesWithStorePositions(f))
  /\ ~dragging
  /\ ~justFinished

\* rules 1-4 and the fallback of the expand/collapse branch, for one node
positionedNode(node, f, prev, current, edges) ==
  LET hasCurrent == node.id \in Ids(current)
      currentPosition == NodeOf(current, node.id).position
      hasStoredPosition == NonZero(f.position[node.id])
      wasVisibleInPreviousRender == node.id \in previouslyVisibleInRender(f, prev)
  IN IF hasCurrent /\ NonZero(currentPosition) THEN currentPosition
     ELSE IF hasStoredPosition THEN f.position[node.id]
     ELSE IF wasVisibleInPreviousRender /\ NonZero(node.position) THEN node.position
     ELSE IF HasParent(edges, node.id)
     THEN LET parent == GraphParent(edges, node.id)
              parentPosition ==
                IF parent \in Ids(current) THEN NodeOf(current, parent).position
                ELSE f.position[parent]
              siblings == GraphChildren(edges, parent)
              siblingIndex == IndexOf(siblings, node.id) - 1
              verticalSpacing == 60 * PosScale
              totalHeight == (Len(siblings) - 1) * verticalSpacing
          IN [x |-> parentPosition.x + nodeWidth + 80 * PosScale,
              y |-> parentPosition.y - totalHeight \div 2 + siblingIndex * verticalSpacing]
     ELSE IF hasCurrent THEN currentPosition ELSE node.position

positionedNodes(f, prev, current) ==
  LET withStore == nodesWithStorePositions(f)
      edges == convertToReactFlowNodes(f).edges
  IN [i \in 1..Len(withStore) |->
        [withStore[i] EXCEPT !.position = positionedNode(withStore[i], f, prev, current, edges)]]

\* the save logic of the expand/collapse branch: does the pass call
\* updateNodePosition for this positioned node
fanoutSaves(node, f, prev, manual) ==
  LET hasStoredPosition == NonZero(f.position[node.id])
      wasVisibleInPreviousRender == node.id \in previouslyVisibleInRender(f, prev)
      isManuallyMoved == node.id \in manual
  IN IF ~wasVisibleInPreviousRender /\ ~hasStoredPosition THEN TRUE
     ELSE IF isManuallyMoved
     THEN IF hasStoredPosition
          THEN \/ Abs(node.position.x - f.position[node.id].x) * 2 > PosScale
               \/ Abs(node.position.y - f.position[node.id].y) * 2 > PosScale
          ELSE TRUE
     ELSE FALSE

\* finalNodes of the full-layout branch
finalNodes(layouted, current) ==
  [i \in 1..Len(layouted) |->
     IF /\ layouted[i].id \in Ids(current)
        /\ NonZero(NodeOf(current, layouted[i].id).position)
     THEN [layouted[i] EXCEPT !.position = NodeOf(current, layouted[i].id).position]
     ELSE layouted[i]]

\* a save logic of the full-layout branch that saves every node
layoutSavesAll(node, current) == TRUE

\* the save logic of the full-layout branch
layoutSaves(node, current) == node.id \notin Ids(current)

\* a run of updateNodePosition calls, one per listed node, in order
RECURSIVE ApplyWrites(_, _)
ApplyWrites(f, writes) ==
  IF writes = <<>> THEN f
  ELSE ApplyWrites(updateNodeInTreePosition(f, Head(writes).id, Head(writes).position).nodes,
                   Tail(writes))

\* a branch without re-layout that leaves the rendered nodes where React
\* Flow has them and does not read the stored positions
noopNodesKeepCurrent(f, current) ==
  LET fresh == nodesWithStorePositions(f)
  IN [i \in 1..Len(fresh) |->
        [fresh[i] EXCEPT !.position =
           IF fresh[i].id \in Ids(current)
           THEN NodeOf(current, fresh[i].id).position
           ELSE ZeroPos]]

\* a branch without re-layout that caches the signature it computed
noopSignatureRecorded(prev, nodeSignature) == nodeSignature

\* the branch without re-layout does not assign previousStoreNodesRef
noopSignature(prev, nodeSignature) == prev

\* the nodes the branch without re-layout hands to setNodesState
noopNodes(f, current) == nodesWithStorePositions(f)

(***************************************************************************)
(* One run of the reconciliation effect, as a function of what it reads:   *)
(* the store's forest f, React Flow's nodes (getNodes()), the cached       *)
(* signature and the drag refs.  It yields the nodes handed to             *)
(* setNodesState, the updateNodePosition calls in order, the cached        *)
(* signature afterwards, the branch taken and whether a viewport fit is    *)
(* requested.                                                              *)
(***************************************************************************)
ReconcilePass(f, current, prev, dragging, justFinished, manual) ==
  IF f.roots = <<>>
  THEN [nodes |-> <<>>, writes |-> <<>>, signature |-> EmptySignature, kind |-> "empty",
        fit |-> FALSE]
  ELSE
    LET nodeSignature == createNodeSignature(f)
        structureChanged == prev # nodeSignature
        withStore == nodesWithStorePositions(f)
        rfEdges == convertToReactFlowNodes(f).edges
    IN IF isJustExpandCollapse(f, prev)
       THEN LET positioned == positionedNodes(f, prev, current)
            IN [nodes |-> positioned,
                writes |-> SelectSeq(positioned, LAMBDA n : fanoutSaves(n, f, prev, manual)),
                signature |-> nodeSignature,
                kind |-> "fanout",
                fit |-> FALSE]
       ELSE IF needsLayout(f, prev, dragging, justFinished)
       THEN LET preservePositions ==
                  /\ ~checkIfStacked(withStore)
                  /\ ~structureChanged
                  /\ ~(Len(withStore) > 20)
                layouted ==
                  applyTreeLayout(withStore, rfEdges, preservePositions,
                                  IF structureChanged THEN fixedNodeIds(f, prev) ELSE {},
                                  manual)
                final == finalNodes(layouted, current)
            IN [nodes |-> final,
                writes |-> SelectSeq(final, LAMBDA n : layoutSaves(n, current)),
                signature |-> nodeSignature,
                kind |-> IF prev = EmptySignature THEN "initial" ELSE "layout",
                fit |-> (prev = EmptySignature /\ ~preservePositions)]
       ELSE [nodes |-> noopNodes(f, current), writes |-> <<>>,
             signature |-> noopSignature(prev, nodeSignature),
             kind |-> "noop", fit |-> FALSE]

(***************************************************************************)
(* State.                                                                  *)
(***************************************************************************)
VARIABLES
  storeNodes,              \* FlowState.nodes
  viewMode,                \* FlowState.viewMode
  nodes,                   \* React Flow's nodes (useNodesState / getNodes())
  previousStoreNodesRef,   \* cached signature
  isDraggingRef,
  justFinishedDragRef,
  dragStartPositionsRef,   \* set of (id, position) captured by onNodeDrag
  manuallyMovedNodesRef,
  effectPending,           \* storeNodes changed and the effect has not run yet
  rafQueue,                \* drag stops waiting for requestAnimationFrame
  commitQueue,             \* drag stops waiting for the 10 ms timer
  clearTimers,             \* pending 200 ms timers
  cause,                   \* the store action the pending effect run answers
  lastPass,                \* the run of the effect in the last step
  roundTrip,               \* progress of a collapse and re-expansion of A, with the
                           \* positions at its start (an observation, no program state)
  dragEvents,              \* onNodeDrag events so far
  loads,                   \* loadConnectorRoot completions so far
  loadedIds,               \* ids of the nodes a connector response was converted to, with
                           \* the roots added for search matches, in order
  dragReleased,            \* the pointer has been released since the last onNodeDrag
                           \* event (an observation, no program state)
  pan,                     \* FlowState.pan
  zoom,                    \* FlowState.zoom, in tenths
  viewportUpdateTimeoutRef,\* id of the timer onMove set last, 0 for null
  viewportTimers,          \* pending setTimeout callbacks of onMove
  mounted,                 \* the component is mounted
  moveEvents,              \* onMove events so far
  lastMove,                \* viewport of the last onMove event
  sinceLastMove,           \* ms since the last onMove event, capped
  burstMoves,              \* onMove events of the current burst
  burstWrites,             \* setPan / setZoom calls since the current burst began
                           \* (the last four are observations, no program state)
  layoutCall,              \* the last application of a layout function to inputs
                           \* of its own: the inputs and what it returned
  skippedLayout,           \* a run of the effect has taken the no-op branch
                           \* for the drag state alone, and no run has laid
                           \* out or fanned out since
  isLoadingNodes,          \* FlowState.isLoadingNodes
  activeConnector,         \* FlowState.activeConnector
  loadCall,                \* the loadConnectorRoot call under way: where it is
                           \* and the retryFetch it awaits
  searchQuery,             \* FlowState.searchQuery
  searchMatches,           \* FlowState.searchMatches
  searchLoading,           \* FlowState.searchLoading
  searchRequests,          \* the searchEverything requests in flight
  searchIssued             \* the applySearchQuery calls so far, the last one's
                           \* query and how its request ended

vars ==
  <<storeNodes, viewMode, nodes, previousStoreNodesRef, isDraggingRef,
    justFinishedDragRef, dragStartPositionsRef, manuallyMovedNodesRef,
    effectPending, rafQueue, commitQueue, clearTimers, cause, lastPass,
    roundTrip, dragEvents, loads, loadedIds, dragReleased, pan, zoom,
    viewportUpdateTimeoutRef, viewportTimers, mounted, moveEvents, lastMove,
    sinceLastMove, burstMoves, burstWrites, layoutCall, isLoadingNodes,
    activeConnector, loadCall, searchQuery, searchMatches, searchLoading,
    searchRequests, searchIssued, skippedLayout>>

canvasVars ==
  <<storeNodes, viewMode, nodes, previousStoreNodesRef, isDraggingRef,
    justFinishedDragRef, dragStartPositionsRef, manuallyMovedNodesRef,
    effectPending, rafQueue, commitQueue, clearTimers, cause, lastPass,
    roundTrip, dragEvents, loads, dragReleased, skippedLayout>>

viewportVars ==
  <<pan, zoom, viewportUpdateTimeoutRef, viewportTimers, mounted, moveEvents,
    lastMove, sinceLastMove, burstMoves, burstWrites>>

connectorVars == <<isLoadingNodes, activeConnector, loadCall>>
searchVars == <<searchQuery, searchMatches, searchLoading, searchRequests, searchIssued>>

storeVars == <<storeNodes, viewMode>>
dragVars == <<isDraggingRef, justFinishedDragRef, dragStartPositionsRef, manuallyMovedNodesRef>>
timerVars == <<rafQueue, commitQueue, clearTimers>>

\* pointer offsets of one onNodeDrag event, in tenths of a canvas unit: a
\* movement below the 0.5 threshold, and one that takes the second child of
\* the laid-out directory onto the origin
DragOffsets ==
  {[x |-> 3, y |-> 4], [x |-> -1800, y |-> -1100]}

\* the nodes the pointer grabs
DragNodes == {"B", "C"}

\* the drag state is Idle
Idle == ~isDraggingRef /\ ~justFinishedDragRef

\* no run of the effect in the last step
NoPass == [kind |-> "none", writes |-> {}, idle |-> TRUE, cause |-> "none", fit |-> FALSE]

\* no collapse and re-expansion of A is under way
NoTrip == [phase |-> "none", R |-> ZeroPos, B |-> ZeroPos, C |-> ZeroPos]

\* R -> [A, B] and A -> [C] are all rendered, each where the store has it,
\* and no two of them at the same place
LaidOut ==
  /\ Ids(nodes) = {"R", "A", "B", "C"}
  /\ storeNodes.expanded["R"]
  /\ storeNodes.expanded["A"]
  /\ \A n \in Ids(nodes) : NodeOf(nodes, n).position = storeNodes.position[n]
  /\ \A n, m \in Ids(nodes) : n # m => storeNodes.position[n] # storeNodes.position[m]

PendingStops == Len(rafQueue) + Len(commitQueue) + clearTimers

\* no retryFetch has settled
NoRetry ==
  [site |-> "none", retries |-> 0, calls |-> 0, log |-> <<>>, outcome |-> "none",
   result |-> 0, error |-> "none"]

\* no loadConnectorRoot call is under way
NoLoad ==
  [pc |-> "idle", connectorId |-> "local-fs", site |-> "none", i |-> 0, retries |-> 0,
   delay |-> 0, calls |-> 0, log |-> <<>>, settled |-> NoRetry]

\* no applySearchQuery call so far
NoSearch == [count |-> 0, query |-> <<>>, outcome |-> "none"]

\* the store after mount: no forest, the effect has run once on it
Init ==
  /\ storeNodes = EmptyForest
  /\ viewMode = "view"
  /\ nodes = <<>>
  /\ previousStoreNodesRef = EmptySignature
  /\ isDraggingRef = FALSE
  /\ justFinishedDragRef = FALSE
  /\ dragStartPositionsRef = {}
  /\ manuallyMovedNodesRef = {}
  /\ effectPending = FALSE
  /\ rafQueue = <<>>
  /\ commitQueue = <<>>
  /\ clearTimers = 0
  /\ cause = "none"
  /\ lastPass = NoPass
  /\ roundTrip = NoTrip
  /\ dragEvents = 0
  /\ loads = 0
  /\ loadedIds = <<>>
  /\ dragReleased = FALSE
  /\ pan = [x |-> 0, y |-> 0]
  /\ zoom = 10
  /\ viewportUpdateTimeoutRef = 0
  /\ viewportTimers = {}
  /\ mounted = TRUE
  /\ moveEvents = 0
  /\ lastMove = [x |-> 0, y |-> 0, zoom |-> 10]
  /\ sinceLastMove = 0
  /\ burstMoves = 0
  /\ burstWrites = 0
  /\ layoutCall = [fn |-> "none"]
  /\ skippedLayout = FALSE
  /\ isLoadingNodes = FALSE
  /\ activeConnector = "local-fs"
  /\ loadCall = NoLoad
  /\ searchQuery = <<>>
  /\ searchMatches = <<>>
  /\ searchLoading = FALSE
  /\ searchRequests = {}
  /\ searchIssued = NoSearch

(***************************************************************************)
(* The reconciliation effect.  It runs whenever storeNodes has changed,    *)
(* before any later event is handled; its own updateNodePosition calls     *)
(* change storeNodes and so run it again.                                  *)
(***************************************************************************)
Reconcile ==
  /\ effectPending
  /\ LET r == ReconcilePass(storeNodes, nodes, previousStoreNodesRef,
                            isDraggingRef, justFinishedDragRef, manuallyMovedNodesRef)
     IN /\ nodes' = r.nodes
        /\ storeNodes' = ApplyWrites(storeNodes, r.writes)
        /\ previousStoreNodesRef' = r.signature
        /\ effectPending' = (r.writes # <<>>)
        /\ cause' = IF r.writes # <<>> THEN cause ELSE "none"
        /\ lastPass' = [kind |-> r.kind,
                        writes |-> Ids(r.writes),
                        idle |-> Idle,
                        cause |-> cause,
                        fit |-> r.fit]
        /\ skippedLayout' =
             IF r.kind # "noop" \/ Idle THEN FALSE
             ELSE IF needsLayout(storeNodes, previousStoreNodesRef, FALSE, FALSE) THEN TRUE
             ELSE skippedLayout
        /\ roundTrip' =
             IF r.writes # <<>> THEN roundTrip
             ELSE IF roundTrip.phase = "collapsing" THEN [roundTrip EXCEPT !.phase = "collapsed"]
             ELSE IF roundTrip.phase = "expanding" THEN [roundTrip EXCEPT !.phase = "done"]
             ELSE roundTrip
  /\ UNCHANGED <<viewMode, dragVars, timerVars, dragEvents, loads>>
  /\ UNCHANGED <<loadedIds, dragReleased, viewportVars, layoutCall, connectorVars, searchVars>>

(***************************************************************************)
(* Store actions.                                                          *)
(***************************************************************************)
\* loadConnectorRoot settles: the converted directory, or [] when every
\* fetch failed
LoadConnectorRoot(ok) ==
  /\ ~effectPending
  /\ loads < MaxLoads
  /\ loads' = loads + 1
  /\ storeNodes' = IF ok THEN convertDirectoryResponse ELSE EmptyForest
  /\ effectPending' = TRUE
  /\ cause' = "load"
  /\ lastPass' = NoPass
  /\ roundTrip' = NoTrip
  /\ UNCHANGED <<viewMode, nodes, previousStoreNodesRef, dragVars, timerVars, dragEvents>>
  /\ UNCHANGED <<skippedLayout, loadedIds, dragReleased, viewportVars, layoutCall, connectorVars, searchVars>>

\* toggleNodeExpanded, from the toggle of a rendered folder that has children
ToggleNodeExpanded(id) ==
  /\ ~effectPending
  /\ id \in Ids(nodes)
  /\ storeNodes.children[id] # <<>>
  /\ LET u == updateNodeInTreeExpanded(storeNodes, id, ~storeNodes.expanded[id])
     IN /\ storeNodes' = u.nodes
        /\ effectPending' = u.changed
        /\ cause' = IF u.changed THEN "toggle" ELSE "none"
  /\ roundTrip' =
       IF id = "A" /\ LaidOut
       THEN [phase |-> "collapsing",
             R |-> storeNodes.position["R"],
             B |-> storeNodes.position["B"],
             C |-> storeNodes.position["C"]]
       ELSE IF id = "A" /\ roundTrip.phase = "collapsed"
       THEN [roundTrip EXCEPT !.phase = "expanding"]
       ELSE NoTrip
  /\ lastPass' = NoPass
  /\ UNCHANGED <<viewMode, nodes, previousStoreNodesRef, dragVars, timerVars, dragEvents, loads>>
  /\ UNCHANGED <<skippedLayout, loadedIds, dragReleased, viewportVars, layoutCall, connectorVars, searchVars>>

ExpandAllNodes ==
  /\ ~effectPending
  /\ storeNodes' = setExpandedForTree(storeNodes, TRUE)
  /\ effectPending' = TRUE
  /\ cause' = "expandAll"
  /\ lastPass' = NoPass
  /\ roundTrip' = NoTrip
  /\ UNCHANGED <<viewMode, nodes, previousStoreNodesRef, dragVars, timerVars, dragEvents, loads>>
  /\ UNCHANGED <<skippedLayout, loadedIds, dragReleased, viewportVars, layoutCall, connectorVars, searchVars>>

CollapseAllNodes ==
  /\ ~effectPending
  /\ storeNodes' = setExpandedForTree(storeNodes, FALSE)
  /\ effectPending' = TRUE
  /\ cause' = "collapseAll"
  /\ lastPass' = NoPass
  /\ roundTrip' = NoTrip
  /\ UNCHANGED <<viewMode, nodes, previousStoreNodesRef, dragVars, timerVars, dragEvents, loads>>
  /\ UNCHANGED <<skippedLayout, loadedIds, dragReleased, viewportVars, layoutCall, connectorVars, searchVars>>

\* focusSearchMatch on a match: a match that is not in the forest is added
\* as a new root
FocusSearchMatch(id) ==
  /\ ~effectPending
  /\ IF findNodeById(storeNodes, id)
     THEN UNCHANGED <<storeNodes, effectPending, cause>>
     ELSE /\ storeNodes' = createNodeFromSearchMatch(storeNodes, id)
          /\ effectPending' = TRUE
          /\ cause' = "addRoot"
  /\ lastPass' = NoPass
  /\ roundTrip' = NoTrip
  /\ UNCHANGED <<viewMode, nodes, previousStoreNodesRef, dragVars, timerVars, dragEvents, loads>>
  /\ UNCHANGED <<skippedLayout, loadedIds, dragReleased, viewportVars, layoutCall, connectorVars, searchVars>>

\* the nodes of the saved layouts (saveLayout stores state.nodes): the
\* directory as the initial pass laid it out, and the same with C dragged
\* above A
SavedLayouts ==
  LET laidOut ==
        [n \in NodeIds |->
           IF n = "A" THEN [x |-> 1800, y |-> 0]
           ELSE IF n = "B" THEN [x |-> 1800, y |-> 1100]
           ELSE IF n = "C" THEN [x |-> 3600, y |-> 0]
           ELSE ZeroPos]
  IN {[convertDirectoryResponse EXCEPT !.position = laidOut],
      [convertDirectoryResponse EXCEPT
         !.position = [laidOut EXCEPT !["C"] = [x |-> 1800, y |-> -1100]]]}

\* loadLayout settles: the store's forest is the snapshot's
LoadLayout(layout) ==
  /\ ~effectPending
  /\ loads < MaxLoads
  /\ loads' = loads + 1
  /\ storeNodes' = layout
  /\ effectPending' = TRUE
  /\ cause' = IF previousStoreNodesRef = EmptySignature THEN "restore" ELSE "loadLayout"
  /\ lastPass' = NoPass
  /\ roundTrip' = NoTrip
  /\ UNCHANGED <<viewMode, nodes, previousStoreNodesRef, dragVars, timerVars, dragEvents>>
  /\ UNCHANGED <<skippedLayout, loadedIds, dragReleased, viewportVars, layoutCall, connectorVars, searchVars>>

\* setNodeExpanded
SetNodeExpanded(id, expanded) ==
  /\ ~effectPending
  /\ LET u == updateNodeInTreeExpanded(storeNodes, id, expanded)
     IN /\ storeNodes' = u.nodes
        /\ effectPending' = u.changed
        /\ cause' = IF u.changed THEN "setExpanded" ELSE "none"
  /\ lastPass' = NoPass
  /\ roundTrip' = NoTrip
  /\ UNCHANGED <<viewMode, nodes, previousStoreNodesRef, dragVars, timerVars, dragEvents, loads>>
  /\ UNCHANGED <<skippedLayout, loadedIds, dragReleased, viewportVars, layoutCall, connectorVars, searchVars>>

\* applySearchQuery on a connector that searches the forest: matchSet is the
\* set of nodes whose name contains the query (none for a blank query);
\* highlightedNodeIds is a new array in every case, so the effect runs
ApplySearchQuery(matchSet) ==
  /\ ~effectPending
  /\ matchSet \subseteq ForestIds(storeNodes)
  /\ storeNodes' = IF matchSet # {} THEN expandNodesForMatches(storeNodes, matchSet)
                    ELSE storeNodes
  /\ effectPending' = TRUE
  /\ cause' = "search"
  /\ lastPass' = NoPass
  /\ roundTrip' = NoTrip
  /\ UNCHANGED <<viewMode, nodes, previousStoreNodesRef, dragVars, timerVars, dragEvents, loads>>
  /\ UNCHANGED <<skippedLayout, loadedIds, dragReleased, viewportVars, layoutCall, connectorVars, searchVars>>

\* updateNodeColor: the forest is rebuilt with the same structure and
\* positions (the colour is read by no code of the model), and the effect
\* runs on the new array
UpdateNodeColor(id) ==
  /\ ~effectPending
  /\ findNodeById(storeNodes, id)
  /\ effectPending' = TRUE
  /\ cause' = "color"
  /\ roundTrip' = NoTrip
  /\ UNCHANGED <<storeNodes, viewMode, nodes, previousStoreNodesRef, dragVars, timerVars,
                 lastPass, dragEvents, loads>>
  /\ UNCHANGED <<skippedLayout, loadedIds, dragReleased, viewportVars, layoutCall, connectorVars, searchVars>>

\* updateNodeIcon: as updateNodeColor, for the icon
UpdateNodeIcon(id) ==
  /\ ~effectPending
  /\ findNodeById(storeNodes, id)
  /\ effectPending' = TRUE
  /\ cause' = "icon"
  /\ roundTrip' = NoTrip
  /\ UNCHANGED <<storeNodes, viewMode, nodes, previousStoreNodesRef, dragVars, timerVars,
                 lastPass, dragEvents, loads>>
  /\ UNCHANGED <<skippedLayout, loadedIds, dragReleased, viewportVars, layoutCall, connectorVars, searchVars>>

\* setHighlightedNodeIds: storeNodes is untouched, highlightedSet is a new
\* set and the effect, which depends on it, runs again
SetHighlightedNodeIds ==
  /\ ~effectPending
  /\ effectPending' = TRUE
  /\ cause' = "highlight"
  /\ roundTrip' = NoTrip
  /\ UNCHANGED <<storeNodes, viewMode, nodes, previousStoreNodesRef, dragVars, timerVars,
                 lastPass, dragEvents, loads>>
  /\ UNCHANGED <<skippedLayout, loadedIds, dragReleased, viewportVars, layoutCall, connectorVars, searchVars>>

\* setSelectedNodeId: neither storeNodes nor highlightedSet changes, so the
\* effect does not run
SetSelectedNodeId ==
  /\ ~effectPending
  /\ roundTrip' = NoTrip
  /\ UNCHANGED <<storeNodes, viewMode, nodes, previousStoreNodesRef, dragVars, timerVars,
                 effectPending, cause, lastPass, dragEvents, loads>>
  /\ UNCHANGED <<skippedLayout, loadedIds, dragReleased, viewportVars, layoutCall, connectorVars, searchVars>>

SetViewMode(mode) ==
  /\ ~effectPending
  /\ viewMode' = mode
  /\ lastPass' = NoPass
  /\ roundTrip' = NoTrip
  /\ UNCHANGED <<storeNodes, nodes, previousStoreNodesRef, dragVars, timerVars, effectPending,
                 cause, dragEvents, loads>>
  /\ UNCHANGED <<skippedLayout, loadedIds, dragReleased, viewportVars, layoutCall, connectorVars, searchVars>>

(***************************************************************************)
(* Drag handlers and their timers.                                         *)
(***************************************************************************)
MoveNode(nodeList, id, off) ==
  [i \in 1..Len(nodeList) |->
     IF nodeList[i].id = id
     THEN [nodeList[i] EXCEPT !.position =
             [x |-> nodeList[i].position.x + off.x, y |-> nodeList[i].position.y + off.y]]
     ELSE nodeList[i]]

\* every mode lets the pointer move nodes
isEditableAlways == TRUE

\* const isEditable = viewMode === "edit"
isEditable == viewMode = "edit"

\* React Flow moves the rendered node by the pointer offset (nodesDraggable
\* is isEditable) and calls onNodeDrag
OnNodeDrag(id, off, maxEvents) ==
  /\ ~effectPending
  /\ dragEvents < maxEvents
  /\ id \in Ids(nodes)
  /\ dragEvents' = dragEvents + 1
  /\ IF isEditable
     THEN /\ nodes' = MoveNode(nodes, id, off)
          /\ isDraggingRef' = TRUE
          /\ dragStartPositionsRef' =
               IF ~isDraggingRef
               THEN {[id |-> id, position |-> NodeOf(nodes, id).position]}
               ELSE dragStartPositionsRef
     ELSE UNCHANGED <<nodes, isDraggingRef, dragStartPositionsRef>>
  /\ lastPass' = NoPass
  /\ roundTrip' = NoTrip
  /\ UNCHANGED <<storeVars, previousStoreNodesRef, justFinishedDragRef, manuallyMovedNodesRef,
                 effectPending, cause, timerVars, loads>>
  /\ dragReleased' = FALSE
  /\ UNCHANGED <<skippedLayout, loadedIds, viewportVars, layoutCall, connectorVars, searchVars>>

\* onNodeDragStop, which React Flow calls at the end of a drag it reported:
\* the callback closes over the storeNodes of its render
OnNodeDragStop(maxPending) ==
  /\ ~effectPending
  /\ isDraggingRef
  /\ ~dragReleased
  /\ PendingStops < maxPending
  /\ IF isEditable
     THEN /\ justFinishedDragRef' = TRUE
          /\ isDraggingRef' = FALSE
          /\ rafQueue' = Append(rafQueue, storeNodes)
     ELSE UNCHANGED <<justFinishedDragRef, isDraggingRef, rafQueue>>
  /\ lastPass' = NoPass
  /\ roundTrip' = NoTrip
  /\ UNCHANGED <<storeVars, nodes, previousStoreNodesRef, dragStartPositionsRef,
                 manuallyMovedNodesRef, effectPending, cause, commitQueue, clearTimers,
                 dragEvents, loads>>
  /\ dragReleased' = TRUE
  /\ UNCHANGED <<skippedLayout, loadedIds, viewportVars, layoutCall, connectorVars, searchVars>>

\* requestAnimationFrame callback: currentNodes = getNodes(), then the 10 ms timer
AnimationFrame ==
  /\ ~effectPending
  /\ rafQueue # <<>>
  /\ rafQueue' = Tail(rafQueue)
  /\ commitQueue' = Append(commitQueue, [storeNodes |-> Head(rafQueue), currentNodes |-> nodes])
  /\ lastPass' = NoPass
  /\ roundTrip' = NoTrip
  /\ UNCHANGED <<storeVars, nodes, previousStoreNodesRef, dragVars, effectPending, cause,
                 clearTimers, dragEvents, loads>>
  /\ UNCHANGED <<skippedLayout, loadedIds, dragReleased, viewportVars, layoutCall, connectorVars, searchVars>>

\* does the commit loop write this rendered node (and mark it manually moved)
commitMoved(curr, captured) ==
  IF findNodeById(captured, curr.id)
  THEN \/ Abs(curr.position.x - captured.position[curr.id].x) * 2 > PosScale
       \/ Abs(curr.position.y - captured.position[curr.id].y) * 2 > PosScale
  ELSE TRUE

\* manuallyMovedNodesRef.current.add for every committed node
markManuallyMoved(manual, moved) == manual \cup Ids(moved)

\* the 10 ms timer: commit every rendered node that differs from the captured
\* store, then start the 200 ms timer
CommitTimer ==
  /\ ~effectPending
  /\ commitQueue # <<>>
  /\ LET job == Head(commitQueue)
         moved == SelectSeq(job.currentNodes, LAMBDA n : commitMoved(n, job.storeNodes))
         written == \E i \in 1..Len(moved) : findNodeById(storeNodes, moved[i].id)
     IN /\ storeNodes' = ApplyWrites(storeNodes, moved)
        /\ manuallyMovedNodesRef' = markManuallyMoved(manuallyMovedNodesRef, moved)
        /\ effectPending' = written
        /\ cause' = IF written THEN "commit" ELSE "none"
  /\ commitQueue' = Tail(commitQueue)
  /\ clearTimers' = clearTimers + 1
  /\ dragStartPositionsRef' = {}
  /\ lastPass' = NoPass
  /\ roundTrip' = NoTrip
  /\ UNCHANGED <<viewMode, nodes, previousStoreNodesRef, isDraggingRef, justFinishedDragRef,
                 rafQueue, dragEvents, loads>>
  /\ UNCHANGED <<skippedLayout, loadedIds, dragReleased, viewportVars, layoutCall, connectorVars, searchVars>>

\* a 200 ms timer that also forgets which nodes were moved by hand
ClearTimerForgetsManual ==
  /\ ~effectPending
  /\ clearTimers > 0
  /\ clearTimers' = clearTimers - 1
  /\ justFinishedDragRef' = FALSE
  /\ manuallyMovedNodesRef' = {}
  /\ lastPass' = NoPass
  /\ roundTrip' = NoTrip
  /\ UNCHANGED <<storeVars, nodes, previousStoreNodesRef, isDraggingRef, dragStartPositionsRef,
                 effectPending, cause, rafQueue, commitQueue, dragEvents, loads>>
  /\ UNCHANGED <<skippedLayout, loadedIds, dragReleased, viewportVars, layoutCall, connectorVars, searchVars>>

\* the 200 ms timer
ClearTimer ==
  /\ ~effectPending
  /\ clearTimers > 0
  /\ clearTimers' = clearTimers - 1
  /\ justFinishedDragRef' = FALSE
  /\ lastPass' = NoPass
  /\ roundTrip' = NoTrip
  /\ UNCHANGED <<storeVars, nodes, previousStoreNodesRef, isDraggingRef, dragStartPositionsRef,
                 manuallyMovedNodesRef, effectPending, cause, rafQueue, commitQueue,
                 dragEvents, loads>>
  /\ UNCHANGED <<skippedLayout, loadedIds, dragReleased, viewportVars, layoutCall, connectorVars, searchVars>>

(***************************************************************************)
(* Viewport changes.  Time advances in steps of TickMs; a timer that is    *)
(* due fires before time advances and before the next event is handled.    *)
(***************************************************************************)
\* the delay of the setTimeout in onMove
DebounceMs == 100

\* viewports React Flow reports, the zoom in tenths
Viewports ==
  {[x |-> 120, y |-> -40, zoom |-> 10],
   [x |-> 120, y |-> -40, zoom |-> 15],
   [x |-> 300, y |-> 0, zoom |-> 15]}

\* a timer whose delay has elapsed
DueTimers == {t \in viewportTimers : t.remaining <= 0}

\* a clearTimeout that cancels nothing
clearTimeoutNever(timers, id) == timers

\* clearTimeout(id): a no-op when the timer has fired or was cleared
clearTimeout(timers, id) == {t \in timers : t.id # id}

\* onMove: clear the pending timeout if any, then schedule the write
OnMove(viewport) ==
  /\ mounted
  /\ moveEvents < MaxMoves
  /\ DueTimers = {}
  /\ viewportTimers' =
       (IF viewportUpdateTimeoutRef # 0
        THEN clearTimeout(viewportTimers, viewportUpdateTimeoutRef)
        ELSE viewportTimers)
         \cup {[id |-> moveEvents + 1, remaining |-> DebounceMs, viewport |-> viewport]}
  /\ viewportUpdateTimeoutRef' = moveEvents + 1
  /\ moveEvents' = moveEvents + 1
  /\ lastMove' = viewport
  /\ sinceLastMove' = 0
  /\ IF moveEvents = 0 \/ sinceLastMove >= DebounceMs
     THEN burstMoves' = 1 /\ burstWrites' = 0
     ELSE burstMoves' = burstMoves + 1 /\ UNCHANGED burstWrites
  /\ UNCHANGED <<pan, zoom, mounted, canvasVars, loadedIds, layoutCall, connectorVars, searchVars>>

\* the callback of the timeout: setPan and setZoom
ViewportTimeout ==
  /\ \E t \in DueTimers :
       /\ pan' = [x |-> t.viewport.x, y |-> t.viewport.y]
       /\ zoom' = t.viewport.zoom
       /\ viewportTimers' = viewportTimers \ {t}
  /\ burstWrites' = burstWrites + 1
  /\ UNCHANGED <<viewportUpdateTimeoutRef, mounted, moveEvents, lastMove, sinceLastMove,
                 burstMoves, canvasVars, loadedIds, layoutCall, connectorVars, searchVars>>

\* TickMs pass
Tick ==
  /\ DueTimers = {}
  /\ viewportTimers # {} \/ sinceLastMove < DebounceMs + TickMs
  /\ viewportTimers' = {[t EXCEPT !.remaining = t.remaining - TickMs] : t \in viewportTimers}
  /\ sinceLastMove' = IF sinceLastMove < DebounceMs + TickMs
                       THEN sinceLastMove + TickMs
                       ELSE sinceLastMove
  /\ UNCHANGED <<pan, zoom, viewportUpdateTimeoutRef, mounted, moveEvents, lastMove,
                 burstMoves, burstWrites, canvasVars, loadedIds, layoutCall, connectorVars, searchVars>>

\* the cleanup of the unmount effect
Unmount ==
  /\ mounted
  /\ mounted' = FALSE
  /\ viewportTimers' =
       IF viewportUpdateTimeoutRef # 0
       THEN clearTimeout(viewportTimers, viewportUpdateTimeoutRef)
       ELSE viewportTimers
  /\ UNCHANGED <<pan, zoom, viewportUpdateTimeoutRef, moveEvents, lastMove, sinceLastMove,
                 burstMoves, burstWrites, canvasVars, loadedIds, layoutCall, connectorVars, searchVars>>

(***************************************************************************)
(* The layout functions applied to inputs of their own.                    *)
(***************************************************************************)
\* stored positions on and next to the borders of the 50-unit cells
CellBorderPositions ==
  {[x |-> -260, y |-> 0], [x |-> -250, y |-> 0], [x |-> 0, y |-> 0],
   [x |-> 240, y |-> 0], [x |-> 250, y |-> 0], [x |-> 0, y |-> 250]}

\* the directory as the store holds it, with these folders expanded and
\* these positions
StoredDirectory(expandedIds, positions) ==
  [convertDirectoryResponse EXCEPT
     !.expanded = [n \in NodeIds |-> n \in expandedIds],
     !.position = [n \in NodeIds |->
                     IF n \in DOMAIN positions THEN positions[n] ELSE ZeroPos]]

\* one run of the effect on the stored directory, React Flow rendering
\* the nodes where the store has them
\* lists of unconnected nodes: roots without rendered children, each where
\* the store may have it
UnconnectedNodeLists ==
  {list \in UNION {[1..k -> [id : {"R", "D", "B"},
                             position : {ZeroPos, [x |-> 1800, y |-> 1100]}]] :
                     k \in 1..MaxRowNodes} :
     \A i, j \in 1..Len(list) : i # j => list[i].id # list[j].id}

\* applyTreeLayout on nodes without edges
ApplyTreeLayoutUnconnected(nodeList, preservePositions, manual) ==
  /\ layoutCall.fn = "none"
  /\ layoutCall' = [fn |-> "applyTreeLayout",
                    nodes |-> nodeList,
                    preservePositions |-> preservePositions,
                    layouted |-> applyTreeLayout(nodeList, <<>>, preservePositions, {}, manual)]
  /\ UNCHANGED <<canvasVars, loadedIds, viewportVars, connectorVars, searchVars>>

\* sizes of trees around the thresholds of the spacing: the number of nodes
\* and the largest number of children of one parent
TreeSizes ==
  {size \in [totalNodes : {2, 12, 20, 21, 50, 51, 60}, maxChildren : {1, 5, 6, 10, 11}] :
     size.maxChildren < size.totalNodes}

\* the nodesep and ranksep the full layout chooses for a tree of this size
SpacingOf(size) ==
  [totalNodes |-> size.totalNodes,
   maxChildren |-> size.maxChildren,
   nodesep |-> nodesepFor(size.totalNodes),
   ranksep |-> ranksepFor(size.maxChildren)]

\* the full layout chooses its spacing for two trees
ChooseSpacing(smaller, larger) ==
  /\ layoutCall.fn = "none"
  /\ smaller.totalNodes <= larger.totalNodes
  /\ layoutCall' = [fn |-> "spacing", smaller |-> SpacingOf(smaller), larger |-> SpacingOf(larger)]
  /\ UNCHANGED <<canvasVars, loadedIds, viewportVars, connectorVars, searchVars>>

\* the next application starts from fresh inputs
ForgetLayoutCall ==
  /\ layoutCall.fn # "none"
  /\ layoutCall' = [fn |-> "none"]
  /\ UNCHANGED <<canvasVars, loadedIds, viewportVars, connectorVars, searchVars>>

\* the runs of the effect from one change of the store on, each run on the
\* forest, the rendered nodes and the cached signature the run before has
\* left: the number of runs that write positions before a run writes none,
\* followed for MaxPassChain runs
RECURSIVE WritingPasses(_, _, _, _, _)
WritingPasses(f, current, prev, manual, left) ==
  LET r == ReconcilePass(f, current, prev, FALSE, FALSE, manual)
  IN IF r.writes = <<>> THEN 0
     ELSE IF left = 0 THEN 1
     ELSE 1 + WritingPasses(ApplyWrites(f, r.writes), r.nodes, r.signature, manual, left - 1)

\* the effect runs on the stored directory while the drag state is Idle,
\* and again for as long as its runs write positions; React Flow renders
\* the nodes where the store has them, or nothing yet
ReconcileToRest(f, rendered, cached) ==
  /\ layoutCall.fn = "none"
  /\ layoutCall' =
       LET current == IF rendered THEN nodesWithStorePositions(f) ELSE <<>>
           prev == IF cached THEN createNodeSignature(f) ELSE EmptySignature
       IN [fn |-> "chain",
           nodes |-> nodesWithStorePositions(f),
           rendered |-> rendered,
           stacked |-> checkIfStacked(nodesWithStorePositions(f)),
           first |-> ReconcilePass(f, current, prev, FALSE, FALSE, {}).kind,
           writing |-> WritingPasses(f, current, prev, {}, MaxPassChain)]
  /\ UNCHANGED <<canvasVars, loadedIds, viewportVars, connectorVars, searchVars>>

ReconcileStored(f, cached, dragging, justFinished) ==
  /\ layoutCall.fn = "none"
  /\ layoutCall' =
       LET withStore == nodesWithStorePositions(f)
           prev == IF cached THEN createNodeSignature(f) ELSE EmptySignature
           r == ReconcilePass(f, withStore, prev, dragging, justFinished, {})
       IN [fn |-> "pass",
           nodes |-> withStore,
           stacked |-> checkIfStacked(withStore),
           changed |-> ~cached,
           idle |-> (~dragging /\ ~justFinished),
           kind |-> r.kind]
  /\ UNCHANGED <<canvasVars, loadedIds, viewportVars, connectorVars, searchVars>>

(***************************************************************************)
(* convertToReactFlowNodes applied to forests the store can hold.  The     *)
(* render cap enters the conversion only through the comparisons of the    *)
(* running node count with it, so a forest of a few nodes under a cap of   *)
(* a few nodes is cut exactly as a forest of more than MAX_RENDERED_NODES  *)
(* nodes is cut under the cap of the code.                                 *)
(***************************************************************************)
\* the directory with any folders expanded, with or without a search match
\* appended as a root, and the empty forest
StoredForests ==
  {EmptyForest}
    \cup {StoredDirectory(expandedIds, <<>>) : expandedIds \in SUBSET {"R", "A", "B", "C"}}
    \cup {createNodeFromSearchMatch(StoredDirectory(expandedIds, <<>>), "D") :
            expandedIds \in SUBSET {"R", "A", "B", "C"}}

RenderCaps == (2..MaxScaledCap) \cup {MAX_RENDERED_NODES}

ConvertForest(f, cap) ==
  /\ layoutCall.fn = "none"
  /\ layoutCall' = [fn |-> "convert",
                    forest |-> f,
                    cap |-> cap,
                    result |-> ConvertList(f, f.roots, "", cap,
                                           [nodes |-> <<>>, edges |-> <<>>])]
  /\ UNCHANGED <<canvasVars, loadedIds, viewportVars, connectorVars, searchVars>>

(***************************************************************************)
(* The store's updates applied to forests the store can hold.              *)
(***************************************************************************)
\* the directory with R or R and A expanded, its nodes at the origin or at
\* a laid-out position, with or without a search match appended as a root
PositionedForests ==
  LET directories ==
        {StoredDirectory(expandedIds, positions) :
           expandedIds \in {{"R", "A"}, {"R"}},
           positions \in [{"R", "A", "B", "C"} -> {ZeroPos, [x |-> 1800, y |-> 1100]}]}
  IN directories \cup {createNodeFromSearchMatch(f, "D") : f \in directories}

\* what the user types into the search input
SearchQueries == UNION {[1..k -> {"a", "B", " "}] : k \in 0..MaxQueryLen}

UpdateNodePosition(f, id, p) ==
  /\ layoutCall.fn = "none"
  /\ layoutCall' = [fn |-> "updateNodePosition",
                    forest |-> f,
                    id |-> id,
                    position |-> p,
                    result |-> updateNodePosition(f, id, p)]
  /\ UNCHANGED <<canvasVars, loadedIds, viewportVars, connectorVars, searchVars>>

\* applySearchQuery with the local connector
ApplySearchQueryLocal(f, query) ==
  /\ layoutCall.fn = "none"
  /\ layoutCall' = [fn |-> "applySearchQuery",
                    forest |-> f,
                    query |-> query,
                    result |-> applySearchQueryToState(f, query)]
  /\ UNCHANGED <<canvasVars, loadedIds, viewportVars, connectorVars, searchVars>>

(***************************************************************************)
(* loadConnectorRoot.  The call runs in steps: every fetch it awaits       *)
(* resolves or rejects in a step of its own, and so does every delay       *)
(* between two tries of retryFetch.  What follows a settled await up to    *)
(* the next await runs in the same step.  One call is under way at a time. *)
(***************************************************************************)
\* the errors a fetch rejects with
FetchErrors == {"NetworkError", "HttpError"}

\* convertEverythingListResponse applied to the listing of the directory's
\* root: the root expanded, its entries collapsed and without children
convertEverythingListResponse ==
  [roots |-> <<"R">>,
   children |-> [n \in NodeIds |-> IF n = "R" THEN <<"A", "B">> ELSE <<>>],
   expanded |-> [n \in NodeIds |-> n = "R"],
   position |-> [n \in NodeIds |-> ZeroPos]]

\* a try that is never taken for the last one
isLastTryNever(i, retries) == FALSE

\* if (i === retries - 1) throw error
isLastTry(i, retries) == i = retries - 1

\* a failed load that leaves the loading flag set
setLoadFailedStillLoading(connector) ==
  [nodes |-> EmptyForest, activeConnector |-> connector, isLoadingNodes |-> TRUE]

\* set({ nodes: [], isLoadingNodes: false }): activeConnector stays
setLoadFailed(connector) ==
  [nodes |-> EmptyForest, activeConnector |-> connector, isLoadingNodes |-> FALSE]

\* set({ nodes, activeConnector, isLoadingNodes: false })
setLoaded(loaded, connectorId) ==
  [nodes |-> loaded, activeConnector |-> connectorId, isLoadingNodes |-> FALSE]

\* retryFetch(fn, retries, delay) up to its first await: i = 0 and fn is
\* called
retryFetch(call, site, retries, delay) ==
  [call EXCEPT !.pc = "fetch", !.site = site, !.i = 0, !.retries = retries,
               !.delay = delay, !.calls = 1, !.log = <<>>]

\* the retryFetch of the call has settled
Settled(call, outcome, error) ==
  [call EXCEPT !.settled =
     [site |-> call.site, retries |-> call.retries, calls |-> call.calls,
      log |-> call.log, outcome |-> outcome,
      result |-> IF outcome = "resolved" THEN call.calls ELSE 0,
      error |-> error]]

\* the set(...) that ends the call; storeNodes is a new array and the
\* effect runs
FinishLoad(call, update) ==
  /\ loadCall' = [call EXCEPT !.pc = "done"]
  /\ storeNodes' = update.nodes
  /\ activeConnector' = update.activeConnector
  /\ isLoadingNodes' = update.isLoadingNodes
  /\ effectPending' = TRUE
  /\ cause' = "load"
  /\ lastPass' = NoPass
  /\ roundTrip' = NoTrip
  /\ UNCHANGED <<viewMode, nodes, previousStoreNodesRef, dragVars, timerVars, dragEvents,
                 loads, dragReleased>>

\* the call goes on to its next await
AwaitNext(call) ==
  /\ loadCall' = call
  /\ UNCHANGED <<canvasVars, isLoadingNodes, activeConnector>>

\* the awaited retryFetch rejected with the error: the catch blocks
RetryRejected(call, error) ==
  LET rejected == Settled(call, "rejected", error)
  IN CASE call.site = "everything" ->
            AwaitNext(retryFetch(rejected, "fallback", 3, 1000))
       [] call.site \in {"fallback", "local"} ->
            AwaitNext(retryFetch(rejected, "lastResort", 2, 500))
       [] OTHER ->
            FinishLoad(rejected, setLoadFailed(activeConnector))

\* loadConnectorRoot(connectorId, path) up to its first await
LoadConnectorRootStart(connectorId) ==
  /\ ~effectPending
  /\ loadCall.pc \in {"idle", "done"}
  /\ isLoadingNodes' = TRUE
  /\ loadCall' = retryFetch([loadCall EXCEPT !.connectorId = connectorId],
                            IF connectorId = "everything-sdk" THEN "everything" ELSE "local",
                            3, 1000)
  /\ UNCHANGED <<canvasVars, activeConnector>>
  /\ UNCHANGED <<skippedLayout, loadedIds, viewportVars, layoutCall, searchVars>>

\* the fetch of the try under way resolves: retryFetch returns its result
\* and the call stores the converted root
FetchResolves ==
  /\ ~effectPending
  /\ loadCall.pc = "fetch"
  /\ LET resolved == Settled(loadCall, "resolved", "none")
     IN CASE loadCall.site = "everything" ->
               FinishLoad(resolved, setLoaded(convertEverythingListResponse,
                                              loadCall.connectorId))
          [] loadCall.site = "local" ->
               FinishLoad(resolved, setLoaded(convertDirectoryResponse,
                                              loadCall.connectorId))
          [] OTHER ->
               FinishLoad([resolved EXCEPT !.connectorId = "local-fs"],
                          setLoaded(convertDirectoryResponse, "local-fs"))
  /\ UNCHANGED <<skippedLayout, loadedIds, viewportVars, layoutCall, searchVars>>

\* the fetch of the try under way rejects: the last try rethrows the error,
\* any other try starts the delay
FetchRejects(error) ==
  /\ ~effectPending
  /\ loadCall.pc = "fetch"
  /\ LET failed == [loadCall EXCEPT !.log = Append(loadCall.log, error)]
     IN IF isLastTry(loadCall.i, loadCall.retries)
        THEN RetryRejected(failed, error)
        ELSE AwaitNext([failed EXCEPT !.pc = "delay"])
  /\ UNCHANGED <<skippedLayout, loadedIds, viewportVars, layoutCall, searchVars>>

\* the delay between two tries is over: the loop goes on, and past its end
\* retryFetch throws 'Max retries exceeded'
DelayElapses ==
  /\ ~effectPending
  /\ loadCall.pc = "delay"
  /\ IF loadCall.i + 1 < loadCall.retries
     THEN AwaitNext([loadCall EXCEPT !.pc = "fetch", !.i = loadCall.i + 1,
                                     !.calls = loadCall.calls + 1])
     ELSE RetryRejected([loadCall EXCEPT !.i = loadCall.i + 1], "Max retries exceeded")
  /\ UNCHANGED <<skippedLayout, loadedIds, viewportVars, layoutCall, searchVars>>

(***************************************************************************)
(* applySearchQuery with the everything-sdk connector.  The call sets the  *)
(* query and awaits searchEverything; the request resolves or rejects in   *)
(* a step of its own, in any order with the other requests in flight.      *)
(***************************************************************************)
\* searchEverything(trimmed, 60): the entries of the index whose name holds
\* the query, case ignored, as the ids of their matches
searchEverything(trimmed) ==
  SelectSeq(<<"R", "A", "B", "C", "D">>,
            LAMBDA n : includes(toLowerCase(NodeName[n]), toLowerCase(trimmed)))

\* how the request of the last call ended, kept for the later ones
Ended(request, outcome) ==
  IF request.seq = searchIssued.count
  THEN [searchIssued EXCEPT !.outcome = outcome]
  ELSE searchIssued

\* setActiveConnector
SetActiveConnector(connector) ==
  /\ activeConnector # connector
  /\ activeConnector' = connector
  /\ UNCHANGED <<isLoadingNodes, loadCall>>
  /\ UNCHANGED <<canvasVars, loadedIds, viewportVars, layoutCall, searchVars>>

\* applySearchQuery(query) up to its await; a blank query clears the search
\* and, highlightedNodeIds being a new array, runs the effect
ApplySearchQueryEverything(query) ==
  /\ ~effectPending
  /\ activeConnector = "everything-sdk"
  /\ searchIssued.count < MaxSearches
  /\ IF trim(query) = <<>>
     THEN /\ searchQuery' = <<>>
          /\ searchMatches' = <<>>
          /\ searchLoading' = FALSE
          /\ searchRequests' = searchRequests
          /\ searchIssued' = [count |-> searchIssued.count + 1, query |-> query,
                              outcome |-> "cleared"]
          /\ effectPending' = TRUE
          /\ cause' = "highlight"
          /\ roundTrip' = NoTrip
          /\ UNCHANGED <<storeNodes, viewMode, nodes, previousStoreNodesRef, dragVars,
                         timerVars, lastPass, dragEvents, loads, dragReleased>>
     ELSE /\ searchQuery' = query
          /\ searchLoading' = TRUE
          /\ searchRequests' =
               searchRequests \cup {[seq |-> searchIssued.count + 1, query |-> trim(query)]}
          /\ searchIssued' = [count |-> searchIssued.count + 1, query |-> query,
                              outcome |-> "pending"]
          /\ UNCHANGED <<searchMatches, canvasVars>>
  /\ UNCHANGED <<skippedLayout, loadedIds, viewportVars, layoutCall, connectorVars>>

\* a searchEverything request resolves
SearchResolves(request) ==
  /\ request \in searchRequests
  /\ searchRequests' = searchRequests \ {request}
  /\ searchMatches' = searchEverything(request.query)
  /\ searchLoading' = FALSE
  /\ searchIssued' = Ended(request, "resolved")
  /\ UNCHANGED <<searchQuery, canvasVars, loadedIds, viewportVars, layoutCall, connectorVars>>

\* a searchEverything request rejects
SearchRejects(request) ==
  /\ request \in searchRequests
  /\ searchRequests' = searchRequests \ {request}
  /\ searchMatches' = <<>>
  /\ searchLoading' = FALSE
  /\ searchIssued' = Ended(request, "rejected")
  /\ UNCHANGED <<searchQuery, canvasVars, loadedIds, viewportVars, layoutCall, connectorVars>>

(***************************************************************************)
(* Node ids.  A string is a sequence of characters, the empty sequence the *)
(* missing or empty string; a connector response is a root entry with its  *)
(* children.                                                               *)
(***************************************************************************)
AlphaNumeric == {"a", "b", "c", "1", "2"}

\* generateNodeId: path.replace(/[^a-zA-Z0-9]/g, "_")
generateNodeId(path) ==
  [i \in 1..Len(path) |-> IF path[i] \in AlphaNumeric THEN path[i] ELSE "_"]

\* the id convertDirectoryResponse gives a node: dir.id || generateNodeId(dir.path)
directoryNodeId(dir) == IF dir.id # <<>> THEN dir.id ELSE generateNodeId(dir.path)

\* the id convertEverythingEntry gives a node, and applySearchQuery a match:
\* entry.path || entry.id || generateNodeId(entry.name)
everythingEntryId(entry) ==
  IF entry.path # <<>> THEN entry.path
  ELSE IF entry.id # <<>> THEN entry.id
  ELSE generateNodeId(entry.name)

\* the id convertEverythingListResponse gives the root:
\* response.path || generateNodeId(response.name)
everythingListId(response) ==
  IF response.path # <<>> THEN response.path ELSE generateNodeId(response.name)

\* entries of a /directory response: the id is optional in the client's type
DirectoryEntries ==
  [id : {<<>>, <<"1">>, <<"2">>},
   path : {<<"a">>, <<"a", "/", "b">>, <<"a", "_", "b">>}]

\* results of the Everything service: full path (may be missing), name, and
\* the uuid the backend draws
EverythingResults ==
  [fullPath : {<<>>, <<"a", "/", "b">>, <<"a", "/", "c">>},
   name : {<<"b">>, <<"c">>},
   uuid : {<<"1">>, <<"2">>}]

\* formatEverythingEntry: id: fullPath || uuidv4(), path: fullPath || name
formatEverythingEntry(result) ==
  [id |-> IF result.fullPath # <<>> THEN result.fullPath ELSE result.uuid,
   path |-> IF result.fullPath # <<>> THEN result.fullPath ELSE result.name,
   name |-> result.name]

EverythingEntries == {formatEverythingEntry(result) : result \in EverythingResults}

\* a /directory response, the root first: every entry a different path, and no
\* id twice
DirectoryResponses ==
  {list \in UNION {[1..n -> DirectoryEntries] : n \in 1..(MaxChildren + 1)} :
     \A i, j \in 1..Len(list) :
        i # j => /\ list[i].path # list[j].path
                 /\ (list[i].id # <<>> => list[i].id # list[j].id)}

\* the results of one Everything query: every result a different uuid, and no
\* full path twice
EverythingResultLists ==
  {list \in UNION {[1..n -> EverythingResults] : n \in 0..MaxChildren} :
     \A i, j \in 1..Len(list) :
        i # j => /\ list[i].uuid # list[j].uuid
                 /\ (list[i].fullPath # <<>> => list[i].fullPath # list[j].fullPath)}

\* the folder an Everything listing is asked for
ListedFolders == {[path |-> <<"a">>, name |-> <<"a">>]}

\* loadConnectorRoot on the local-fs connector: nodes = [convertDirectoryResponse(directory)]
LoadDirectoryRoot(directory) ==
  /\ loadedIds' = [i \in 1..Len(directory) |-> directoryNodeId(directory[i])]
  /\ UNCHANGED <<canvasVars, viewportVars, layoutCall, connectorVars, searchVars>>

\* loadConnectorRoot on the everything-sdk connector:
\* nodes = [convertEverythingListResponse(response)]
LoadEverythingRoot(response, results) ==
  /\ loadedIds' = <<everythingListId(response)>>
                     \o [i \in 1..Len(results) |->
                           everythingEntryId(formatEverythingEntry(results[i]))]
  /\ UNCHANGED <<canvasVars, viewportVars, layoutCall, connectorVars, searchVars>>

\* focusSearchMatch on a match of an Everything search: a match whose id is
\* not in the forest is added as a root
FocusEverythingMatch(result) ==
  /\ Len(loadedIds) < MaxChildren + 2
  /\ LET matchId == everythingEntryId(formatEverythingEntry(result))
     IN loadedIds' = IF matchId \in SeqToSet(loadedIds)
                     THEN loadedIds
                     ELSE Append(loadedIds, matchId)
  /\ UNCHANGED <<canvasVars, viewportVars, layoutCall, connectorVars, searchVars>>

(***************************************************************************)
(* Specifications.                                                         *)
(***************************************************************************)
\* the canvas with every store action and the drag handlers
Next ==
  \/ Reconcile
  \/ \E ok \in BOOLEAN : LoadConnectorRoot(ok)
  \/ \E id \in NodeIds : ToggleNodeExpanded(id)
  \/ FocusSearchMatch("D")
  \/ \E mode \in {"view", "edit"} : SetViewMode(mode)
  \/ \E id \in DragNodes, off \in DragOffsets : OnNodeDrag(id, off, MaxDragEvents)
  \/ OnNodeDragStop(MaxPendingStops)
  \/ AnimationFrame
  \/ CommitTimer
  \/ ClearTimer

Spec == Init /\ [][Next]_vars

\* the store and the effect alone: no pointer input
NextStore ==
  \/ Reconcile
  \/ \E ok \in BOOLEAN : LoadConnectorRoot(ok)
  \/ \E id \in NodeIds : ToggleNodeExpanded(id)
  \/ ExpandAllNodes
  \/ CollapseAllNodes
  \/ FocusSearchMatch("D")
  \/ \E id \in NodeIds : UpdateNodeColor(id)
  \/ \E id \in NodeIds : UpdateNodeIcon(id)
  \/ SetHighlightedNodeIds
  \/ \E id \in NodeIds, expanded \in BOOLEAN : SetNodeExpanded(id, expanded)
  \/ \E matchSet \in {{}} \cup {{n} : n \in NodeIds} : ApplySearchQuery(matchSet)
  \/ \E layout \in SavedLayouts : LoadLayout(layout)
  \/ SetSelectedNodeId

SpecStore == Init /\ [][NextStore]_vars

\* the canvas on which the pointer grabs the root that a search match added
NextSearchRoot ==
  \/ Reconcile
  \/ \E ok \in BOOLEAN : LoadConnectorRoot(ok)
  \/ \E id \in NodeIds : ToggleNodeExpanded(id)
  \/ FocusSearchMatch("D")
  \/ \E mode \in {"view", "edit"} : SetViewMode(mode)
  \/ \E off \in DragOffsets : OnNodeDrag("D", off, MaxDragEvents)
  \/ OnNodeDragStop(MaxPendingStops)
  \/ AnimationFrame
  \/ CommitTimer
  \/ ClearTimer

SpecSearchRoot == Init /\ [][NextSearchRoot]_vars

\* the canvas on which a second drag may start while the timers of the first
\* are pending
NextFollowingDrags ==
  \/ Reconcile
  \/ LoadConnectorRoot(TRUE)
  \/ ToggleNodeExpanded("A")
  \/ SetViewMode("edit")
  \/ \E id \in DragNodes, off \in DragOffsets : OnNodeDrag(id, off, MaxFollowingDrags)
  \/ OnNodeDragStop(MaxFollowingDrags)
  \/ AnimationFrame
  \/ CommitTimer
  \/ ClearTimer

SpecFollowingDrags == Init /\ [][NextFollowingDrags]_vars

\* pointer offsets around the 0.5 threshold of the commit, in tenths
ThresholdOffsets ==
  {[x |-> 3, y |-> 4], [x |-> 4, y |-> 4], [x |-> 6, y |-> 0], [x |-> 0, y |-> -5]}

\* one drag by a small offset on the loaded canvas, and its commit
NextCommit ==
  \/ Reconcile
  \/ LoadConnectorRoot(TRUE)
  \/ ToggleNodeExpanded("A")
  \/ SetViewMode("edit")
  \/ \E id \in DragNodes, off \in ThresholdOffsets : OnNodeDrag(id, off, MaxDragEvents)
  \/ OnNodeDragStop(MaxPendingStops)
  \/ AnimationFrame
  \/ CommitTimer
  \/ ClearTimer

SpecCommit == Init /\ [][NextCommit]_vars

\* the layout functions on inputs of their own
NextLayout ==
  \/ \E expandedIds \in {{"R", "A"}, {"R"}, {}},
        positions \in [{"R", "A", "B", "C"} -> CellBorderPositions],
        cached \in BOOLEAN, dragging \in BOOLEAN, justFinished \in BOOLEAN :
       ReconcileStored(StoredDirectory(expandedIds, positions), cached, dragging, justFinished)
  \/ \E nodeList \in UnconnectedNodeLists, preservePositions \in BOOLEAN,
        manual \in {{}, {"R"}} :
       ApplyTreeLayoutUnconnected(nodeList, preservePositions, manual)
  \/ \E smaller \in TreeSizes, larger \in TreeSizes : ChooseSpacing(smaller, larger)
  \/ ForgetLayoutCall

SpecLayout == Init /\ [][NextLayout]_vars

\* the effect is followed to rest from stored directories
NextQuiesce ==
  \/ \E expandedIds \in {{"R", "A"}, {"R"}},
        positions \in [{"R", "A", "B", "C"} -> CellBorderPositions],
        rendered \in BOOLEAN, cached \in BOOLEAN :
       ReconcileToRest(StoredDirectory(expandedIds, positions), rendered, cached)
  \/ ForgetLayoutCall

SpecQuiesce == Init /\ [][NextQuiesce]_vars

\* convertToReactFlowNodes as a function of the forest
NextConvert ==
  \/ \E f \in StoredForests, cap \in RenderCaps : ConvertForest(f, cap)
  \/ ForgetLayoutCall

SpecConvert == Init /\ [][NextConvert]_vars

\* the store's updates as functions of the forest
NextStoreCalls ==
  \/ \E f \in PositionedForests, id \in NodeIds,
        p \in {ZeroPos, [x |-> 1800, y |-> 1100], [x |-> 3600, y |-> -300]} :
       UpdateNodePosition(f, id, p)
  \/ \E f \in StoredForests, query \in SearchQueries : ApplySearchQueryLocal(f, query)
  \/ ForgetLayoutCall

SpecStoreCalls == Init /\ [][NextStoreCalls]_vars

\* loadConnectorRoot with its fetches and delays, and the effect.  Every
\* fetch settles and every delay ends.
NextLoad ==
  \/ \E connectorId \in {"local-fs", "everything-sdk"} : LoadConnectorRootStart(connectorId)
  \/ FetchResolves
  \/ \E error \in FetchErrors : FetchRejects(error)
  \/ DelayElapses
  \/ Reconcile

SpecLoad ==
  /\ Init
  /\ [][NextLoad]_vars
  /\ WF_vars(FetchResolves \/ \E error \in FetchErrors : FetchRejects(error))
  /\ WF_vars(DelayElapses)

\* searches typed while the Everything connector is active
NextSearch ==
  \/ \E connector \in {"local-fs", "everything-sdk"} : SetActiveConnector(connector)
  \/ \E query \in SearchQueries : ApplySearchQueryEverything(query)
  \/ \E request \in searchRequests : SearchResolves(request)
  \/ \E request \in searchRequests : SearchRejects(request)
  \/ Reconcile

SpecSearch == Init /\ [][NextSearch]_vars

\* the viewport handler, its timers and the unmount
NextViewport ==
  \/ \E viewport \in Viewports : OnMove(viewport)
  \/ ViewportTimeout
  \/ Tick
  \/ Unmount

SpecViewport == Init /\ [][NextViewport]_vars

\* the conversions of connector responses to nodes
NextIds ==
  \/ \E directory \in DirectoryResponses : LoadDirectoryRoot(directory)
  \/ \E response \in ListedFolders, results \in EverythingResultLists :
       LoadEverythingRoot(response, results)
  \/ \E result \in EverythingResults : FocusEverythingMatch(result)

SpecIds == Init /\ [][NextIds]_vars

(***************************************************************************)
(* Properties.                                                             *)
(***************************************************************************)
\* the nodes convertToReactFlowNodes renders for the forest
VisibleIds(f) == Ids(convertToReactFlowNodes(f).nodes)

\* the rendered node of this id, when there is one, sits at this position
RenderedAt(nodeList, id, p) == id \in Ids(nodeList) /\ NodeOf(nodeList, id).position = p

\* the step is the 10 ms timer of a drag stop
CommitStep ==
  /\ commitQueue # <<>>
  /\ commitQueue' = Tail(commitQueue)
  /\ clearTimers' = clearTimers + 1

\* C1: while the drag state is not Idle, the pass that answers a structural
\* change (a load, a root added, a toggle) calls updateNodePosition for no node
C1_NoWritesWhileNotIdle ==
  [][(effectPending /\ ~Idle /\ cause \in {"load", "addRoot", "toggle"})
       => lastPass'.writes = {}]_vars

\* C2: a manually moved node that sits at its committed position keeps that
\* position, stored and rendered, through every pass that answers the
\* addition of a root while Idle
C2_ManualPreserved ==
  [][(effectPending /\ cause = "addRoot" /\ Idle)
       => \A b \in manuallyMovedNodesRef :
            RenderedAt(nodes, b, storeNodes.position[b])
              => /\ storeNodes'.position[b] = storeNodes.position[b]
                 /\ RenderedAt(nodes', b, storeNodes.position[b])]_vars

\* C3: a pass that follows a completed pass with no change of structure and
\* no drag event in between calls updateNodePosition for no node and leaves
\* every stored and every rendered position as it was
C3_Idempotent ==
  [][(effectPending /\ lastPass.kind # "none")
       => /\ lastPass'.writes = {}
          /\ storeNodes' = storeNodes
          /\ nodes' = nodes]_vars

\* C4: the commit of a drag that ended within 0.5 of the position the node
\* had when the drag started neither adds the node to the manually moved set
\* nor changes its stored position
C4_DragThreshold ==
  [][CommitStep
       => \A d \in dragStartPositionsRef :
            LET ended == Head(commitQueue).currentNodes
            IN (/\ d.id \in Ids(ended)
                /\ Abs(NodeOf(ended, d.id).position.x - d.position.x) * 2 <= PosScale
                /\ Abs(NodeOf(ended, d.id).position.y - d.position.y) * 2 <= PosScale)
                 => /\ d.id \in manuallyMovedNodesRef' => d.id \in manuallyMovedNodesRef
                    /\ storeNodes'.position[d.id] = storeNodes.position[d.id]]_vars

\* the node is stored and rendered at this position
RestsAt(id, p) == storeNodes.position[id] = p /\ RenderedAt(nodes, id, p)

\* C5: with R -> [A, B] and A -> [C] all laid out, after the collapse of A and
\* the passes it triggers R and B are where they were, and after the
\* re-expansion of A and its passes R, B and C are where they were
C5_RoundTrip ==
  /\ roundTrip.phase = "collapsed"
       => RestsAt("R", roundTrip.R) /\ RestsAt("B", roundTrip.B)
  /\ roundTrip.phase = "done"
       => RestsAt("R", roundTrip.R) /\ RestsAt("B", roundTrip.B) /\ RestsAt("C", roundTrip.C)

\* C5 witness: a round trip has completed on a forest in which C had been
\* moved by hand
C5_Witness ==
  /\ roundTrip.phase = "done"
  /\ "C" \in manuallyMovedNodesRef

\* C6: from an Idle state in which two or more nodes are visible and all of
\* them are stored at (0, 0), one pass leaves them at pairwise distinct
\* stored positions
C6_StackingRecovery ==
  [][(/\ effectPending
      /\ Idle
      /\ Cardinality(VisibleIds(storeNodes)) >= 2
      /\ \A n \in VisibleIds(storeNodes) : storeNodes.position[n] = ZeroPos)
       => \A a, b \in VisibleIds(storeNodes) :
            a # b => storeNodes'.position[a] # storeNodes'.position[b]]_vars

\* the rendered nodes, each at the position the store has for it
StoredOf(nodeList) ==
  [i \in 1..Len(nodeList) |->
     [nodeList[i] EXCEPT !.position = storeNodes.position[nodeList[i].id]]]

\* the first pass after a single toggle, while Idle, on a forest that is
\* stacked neither before nor after the toggle
TogglePass ==
  /\ effectPending
  /\ cause = "toggle"
  /\ lastPass.kind = "none"
  /\ Idle
  /\ ~checkIfStacked(StoredOf(nodes))
  /\ ~checkIfStacked(nodesWithStorePositions(storeNodes))

\* C7: the pass that answers a single toggle on a non-stacked forest while
\* Idle changes the stored position of no node that was rendered before the
\* toggle, moves no such node that stays rendered by more than the 0.5 drag
\* threshold, and gives a stored position only to nodes that were not
\* rendered and had none
C7_ToggleKeepsVisible ==
  [][TogglePass
       => /\ \A n \in Ids(nodes) :
               /\ storeNodes'.position[n] = storeNodes.position[n]
               /\ n \in Ids(nodes') =>
                    /\ Abs(NodeOf(nodes', n).position.x - NodeOf(nodes, n).position.x) * 2
                         <= PosScale
                    /\ Abs(NodeOf(nodes', n).position.y - NodeOf(nodes, n).position.y) * 2
                         <= PosScale
          /\ \A n \in NodeIds :
               storeNodes'.position[n] # storeNodes.position[n]
                 => n \notin Ids(nodes) /\ storeNodes.position[n] = ZeroPos]_vars

\* C8: the pass that answers the addition of root D to a rendered, laid-out,
\* non-stacked forest while Idle is a full relayout that writes D's position
\* and moves no node that was rendered before
C8_AddedRootIsLaidOut ==
  [][(/\ effectPending
      /\ cause = "addRoot"
      /\ lastPass.kind = "none"
      /\ Idle
      /\ nodes # <<>>
      /\ ~checkIfStacked(nodes)
      /\ \A n \in Ids(nodes) : RenderedAt(nodes, n, storeNodes.position[n]))
       => /\ lastPass'.kind = "layout"
          /\ "D" \in lastPass'.writes
          /\ \A n \in Ids(nodes) :
               /\ storeNodes'.position[n] = storeNodes.position[n]
               /\ RenderedAt(nodes', n, storeNodes.position[n])]_vars

\* the nodes a full relayout must not touch: the manually moved nodes, their
\* visible descendants, and the nodes rendered before the change
Frozen ==
  LET edges == convertToReactFlowNodes(storeNodes).edges
  IN UNION {addDescendants(edges, m) \cap VisibleIds(storeNodes) :
              m \in manuallyMovedNodesRef \cap VisibleIds(storeNodes)}
       \cup manuallyMovedNodesRef
       \cup Ids(nodes)

\* C9: a full relayout pass changes the stored position of no frozen node
C9_FrozenUntouched ==
  [][(effectPending /\ lastPass'.kind = "layout")
       => \A n \in Frozen : storeNodes'.position[n] = storeNodes.position[n]]_vars

\* C10: the manually moved set only grows, and only the commit of a drag
\* stop adds members
C10_ManualSticky ==
  [][/\ manuallyMovedNodesRef \subseteq manuallyMovedNodesRef'
     /\ manuallyMovedNodesRef' # manuallyMovedNodesRef => CommitStep]_vars

\* C10 witness: the set has members and the forest has since become empty
C10_Witness ==
  /\ manuallyMovedNodesRef # {}
  /\ lastPass.kind = "empty"

\* a run of the effect that answers a change of display state only
DisplayPass ==
  /\ effectPending
  /\ cause \in {"color", "icon", "highlight"}

VisibleShape(f) ==
  LET shown == convertToReactFlowNodes(f).nodes
  IN [i \in 1..Len(shown) |->
        [id |-> shown[i].id,
         children |-> Len(f.children[shown[i].id]),
         expanded |-> f.expanded[shown[i].id]]]

\* C12: a step that changes the expanded flag or the child count of a node
\* that is visible, at any depth, changes the structural signature, and a
\* step that keeps the visible (id, childCount, expanded) sequence keeps it
C12_SignatureCoversForest ==
  [][/\ (\E n \in VisibleIds(storeNodes) :
            \/ storeNodes'.expanded[n] # storeNodes.expanded[n]
            \/ Len(storeNodes'.children[n]) # Len(storeNodes.children[n]))
          => createNodeSignature(storeNodes') # createNodeSignature(storeNodes)
     /\ VisibleShape(storeNodes') = VisibleShape(storeNodes)
          => createNodeSignature(storeNodes') = createNodeSignature(storeNodes)]_vars

\* no two visible nodes of the forest are stored in the same 50 x 50 cell
PairwiseApart(f) ==
  \A a, b \in VisibleIds(f) :
    a # b => \/ Round50(f.position[a].x) # Round50(f.position[b].x)
             \/ Round50(f.position[a].y) # Round50(f.position[b].y)

\* C13: when a saved layout whose visible nodes are pairwise apart is loaded
\* before any pass has cached a signature, the first pass and every pass it
\* triggers leave every stored position as the snapshot has it
C13_RestoreKeepsPositions ==
  [][(effectPending /\ cause = "restore" /\ PairwiseApart(storeNodes))
       => \A n \in NodeIds : storeNodes'.position[n] = storeNodes.position[n]]_vars

\* a run of the effect while Idle with an empty cached signature on a
\* forest that is not empty
InitialPass ==
  /\ effectPending
  /\ Idle
  /\ previousStoreNodesRef = EmptySignature
  /\ storeNodes.roots # <<>>

\* C14: the initial pass renders every visible node where the layout with
\* nothing frozen puts it, caches the new signature and requests one
\* viewport fit; no pass that starts from a cached signature requests a fit
C14_InitialPass ==
  [][/\ InitialPass
          => /\ nodes' = applyTreeLayout(nodesWithStorePositions(storeNodes),
                                         convertToReactFlowNodes(storeNodes).edges,
                                         FALSE, {}, {})
             /\ previousStoreNodesRef' = createNodeSignature(storeNodes)
             /\ lastPass'.fit
     /\ (effectPending /\ previousStoreNodesRef # EmptySignature)
          => ~lastPass'.fit]_vars

\* the rendered nodes whose position the pass of this step took from the
\* layout: those React Flow did not hold, or held at (0, 0)
PlacedByPass ==
  {n \in Ids(nodes') : n \notin Ids(nodes) \/ NodeOf(nodes, n).position = ZeroPos}

ExpansionOrDisplayStep ==
  /\ ~effectPending
  /\ effectPending'
  /\ cause' \in {"toggle", "setExpanded", "expandAll", "collapseAll", "color", "icon",
                 "highlight", "search"}

\* C16: setNodeExpanded, toggleNodeExpanded, expandAllNodes, collapseAllNodes,
\* updateNodeColor, updateNodeIcon, applySearchQuery and
\* setHighlightedNodeIds leave the stored position of every node, visible
\* or hidden, as it was
C16_PositionsOnlyByLayoutOrCommit ==
  [][ExpansionOrDisplayStep
       => \A n \in NodeIds : storeNodes'.position[n] = storeNodes.position[n]]_vars

\* C16 witness: collapseAllNodes or a search has just run on a forest in
\* which C, now hidden or not, has a stored position
C16_Witness ==
  /\ effectPending
  /\ cause \in {"collapseAll", "search"}
  /\ lastPass.kind = "none"
  /\ NonZero(storeNodes.position["C"])
  /\ NonZero(storeNodes.position["B"])

\* C17: after any sequence of loads and of roots added for search matches,
\* no two nodes of the forest have the same id
C17_UniqueIds ==
  \A i, j \in 1..Len(loadedIds) : i # j => loadedIds[i] # loadedIds[j]

\* C18: while viewMode is "view", no step starts or ends a drag or hands a
\* drag stop to the timers, and an onNodeDrag event changes no rendered or
\* stored position, no drag state and no manually-moved node
C18_NoDragInViewMode ==
  [][viewMode = "view" =>
       /\ isDraggingRef' = isDraggingRef
       /\ (justFinishedDragRef' => justFinishedDragRef)
       /\ Len(rafQueue') <= Len(rafQueue)
       /\ (dragEvents' # dragEvents =>
             UNCHANGED <<storeNodes, nodes, dragVars, timerVars>>)]_vars

\* an onNodeDrag event has come in view mode and left the laid-out canvas as it was
C18_Witness ==
  /\ viewMode = "view"
  /\ dragEvents = 1
  /\ ~dragReleased
  /\ Idle
  /\ PendingStops = 0
  /\ manuallyMovedNodesRef = {}
  /\ LaidOut

\* C19: a release of the pointer while the drag state is Dragging takes the
\* drag state to Settling, from where the timers take it to Idle
C19_ReleaseEndsDragging ==
  [][(isDraggingRef /\ ~dragReleased /\ dragReleased') =>
       (~isDraggingRef' /\ justFinishedDragRef')]_vars

\* C20: while the commit or the settle delay of any drag stop is outstanding,
\* reconciliation is suppressed (the drag state is Dragging or Settling),
\* also when one drag follows another
C20_SuppressedUntilSettled ==
  PendingStops > 0 => (isDraggingRef \/ justFinishedDragRef)

\* C21: setPan and setZoom are called only while mounted, once the last
\* onMove event of a burst is DebounceMs old, once per burst and with the
\* viewport of that event; and once that time has passed while mounted they
\* have been called
C21_ViewportDebounced ==
  [][/\ (burstWrites' = burstWrites + 1) =>
          /\ mounted
          /\ sinceLastMove >= DebounceMs
          /\ burstWrites' = 1
          /\ pan' = [x |-> lastMove.x, y |-> lastMove.y]
          /\ zoom' = lastMove.zoom
     /\ (burstWrites' # burstWrites + 1) =>
          (pan' = pan /\ zoom' = zoom)
     /\ (mounted' /\ moveEvents' > 0 /\ sinceLastMove' >= DebounceMs
           /\ \A t \in viewportTimers' : t.remaining > 0) =>
          /\ burstWrites' = 1
          /\ pan' = [x |-> lastMove'.x, y |-> lastMove'.y]
          /\ zoom' = lastMove'.zoom]_vars

\* a burst of several onMove events has been written once, with its last viewport
C21_Witness ==
  /\ burstMoves >= 2
  /\ burstWrites = 1
  /\ pan = [x |-> lastMove.x, y |-> lastMove.y]
  /\ zoom = lastMove.zoom
  /\ zoom # 10

\* C22: a pass on an empty forest clears the rendered nodes and resets the
\* cached signature to empty; a pass on a non-empty forest takes the fan-out,
\* the full-layout or the no-op branch and renders every visible node at a
\* position with numeric coordinates; and a pass on a non-empty forest while
\* Idle with an empty cached signature is processed as the initial layout
C22_MissingSignatureNotFatal ==
  [][(effectPending /\ lastPass'.kind # "none") =>
       /\ storeNodes.roots = <<>> =>
            /\ lastPass'.kind = "empty"
            /\ previousStoreNodesRef' = EmptySignature
            /\ nodes' = <<>>
       /\ storeNodes.roots # <<>> =>
            /\ lastPass'.kind \in {"fanout", "layout", "initial", "noop"}
            /\ Ids(nodes') = VisibleIds(storeNodes)
            /\ \A i \in 1..Len(nodes') :
                 nodes'[i].position.x \in Int /\ nodes'[i].position.y \in Int
       /\ InitialPass => lastPass'.kind = "initial"]_vars

\* the forest was emptied by a failed load and the pass after the next load
\* has run as the initial layout
C22_Witness ==
  /\ loads = 2
  /\ lastPass.kind = "initial"
  /\ Ids(nodes) = VisibleIds(storeNodes)
  /\ previousStoreNodesRef = createNodeSignature(storeNodes)

\* C23: the commit of a drag stop writes the rendered position of a node to
\* the store and adds the node to the manually moved set exactly when the
\* Euclidean distance between that position and the node's stored position
\* is greater than 0.5
C23_EuclideanThreshold ==
  [][CommitStep =>
       \A i \in 1..Len(Head(commitQueue).currentNodes) :
         LET curr == Head(commitQueue).currentNodes[i]
             dx == curr.position.x - storeNodes.position[curr.id].x
             dy == curr.position.y - storeNodes.position[curr.id].y
             far == 4 * (dx * dx + dy * dy) > PosScale * PosScale
         IN findNodeById(storeNodes, curr.id) =>
              /\ curr.id \in manuallyMovedNodesRef'
                   <=> (far \/ curr.id \in manuallyMovedNodesRef)
              /\ storeNodes'.position[curr.id] =
                   IF far THEN curr.position ELSE storeNodes.position[curr.id]]_vars

\* C24: after a fan-out or full-layout pass the cached signature is the
\* signature of the forest, and a no-op pass, also one that the drag state
\* kept from laying out a changed forest, leaves the cached signature as it was
C24_SignatureCache ==
  [][(effectPending /\ lastPass'.kind # "none") =>
       /\ lastPass'.kind \in {"fanout", "layout", "initial"} =>
            /\ previousStoreNodesRef' = createNodeSignature(storeNodes')
            /\ previousStoreNodesRef' = createNodeSignature(storeNodes)
       /\ lastPass'.kind = "noop" => previousStoreNodesRef' = previousStoreNodesRef
       /\ (/\ ~Idle
           /\ storeNodes.roots # <<>>
           /\ ~isJustExpandCollapse(storeNodes, previousStoreNodesRef)) =>
            /\ lastPass'.kind = "noop"
            /\ previousStoreNodesRef' = previousStoreNodesRef]_vars

\* the drag state has kept a pass from laying out a changed forest, and the
\* cached signature is still the old one
C24_Witness ==
  /\ lastPass.kind = "noop"
  /\ ~lastPass.idle
  /\ storeNodes.roots # <<>>
  /\ previousStoreNodesRef # createNodeSignature(storeNodes)

\* C25: a fan-out or full-layout pass calls updateNodePosition only for nodes
\* that were not rendered before the pass and are not in the manually moved
\* set, and what it stores for such a node is the position it rendered
C25_WritesOnlyComputed ==
  [][(effectPending /\ lastPass'.kind \in {"fanout", "layout", "initial"}) =>
       \A n \in lastPass'.writes :
         /\ n \notin Ids(nodes)
         /\ n \notin manuallyMovedNodesRef
         /\ storeNodes'.position[n] = NodeOf(nodes', n).position]_vars

\* C26: while the drag state is Dragging, no pass changes the rendered
\* position of the node under the pointer
C26_DraggedNodeKept ==
  [][(effectPending /\ isDraggingRef /\ lastPass'.kind # "none") =>
       \A d \in dragStartPositionsRef :
         (d.id \in Ids(nodes) /\ d.id \in Ids(nodes')) =>
           NodeOf(nodes', d.id).position = NodeOf(nodes, d.id).position]_vars

\* the cell of a coordinate: the k with 50k - 25 <= v < 50k + 25
NearestCell(v) ==
  CHOOSE k \in -2..2 :
    /\ 50 * PosScale * k - 25 * PosScale <= v
    /\ v < 50 * PosScale * k + 25 * PosScale

\* C27: n visible nodes are reported stacked exactly when n > 1 and their
\* distinct cells (round(x/50), round(y/50)) number less than n/2; and a pass
\* on a stacked forest while Idle runs the full layout, also when the
\* signature has not changed
C27_StackingDetector ==
  layoutCall.fn = "pass" =>
    LET n == Len(layoutCall.nodes)
        cells == {<<NearestCell(layoutCall.nodes[i].position.x),
                    NearestCell(layoutCall.nodes[i].position.y)>> : i \in 1..n}
    IN /\ layoutCall.stacked <=> (n > 1 /\ 2 * Cardinality(cells) < n)
       /\ (layoutCall.stacked /\ layoutCall.idle) => layoutCall.kind \in {"layout", "initial"}

\* a forest with an unchanged signature whose nodes lie in one cell, one of
\* them on the cell's border, has been laid out in full while Idle
C27_Witness ==
  /\ layoutCall.fn = "pass"
  /\ layoutCall.stacked
  /\ layoutCall.idle
  /\ ~layoutCall.changed
  /\ layoutCall.kind = "layout"
  /\ \E i \in 1..Len(layoutCall.nodes) : layoutCall.nodes[i].position.x = -250

\* C28: a fan-out pass renders a child that was not rendered before and has
\* no stored position, at index i among the n rendered children of its
\* parent at (px, py), at x = px + 140 + 80 and y = py - (n-1)*60/2 + i*60
C28_FanOutPlacement ==
  [][(effectPending /\ lastPass'.kind = "fanout") =>
       LET edges == convertToReactFlowNodes(storeNodes).edges
       IN \A c \in Ids(nodes') :
            (/\ c \notin Ids(nodes)
             /\ storeNodes.position[c] = ZeroPos
             /\ HasParent(edges, c)) =>
              LET parent == GraphParent(edges, c)
                  siblings == GraphChildren(edges, parent)
                  i == IndexOf(siblings, c) - 1
                  n == Len(siblings)
                  px == NodeOf(nodes', parent).position.x
                  py == NodeOf(nodes', parent).position.y
              IN NodeOf(nodes', c).position =
                   [x |-> px + 140 * PosScale + 80 * PosScale,
                    y |-> py - ((n - 1) * 60 * PosScale) \div 2 + i * 60 * PosScale]]_vars

\* C29: the layout of k >= 1 nodes without edges returns the same nodes in
\* the same order, the node at index i (from 0) at (250 * i, 100), so no two
\* at the same position
C29_ZeroEdgeRow ==
  layoutCall.fn = "applyTreeLayout" =>
    /\ Len(layoutCall.layouted) = Len(layoutCall.nodes)
    /\ \A i \in 1..Len(layoutCall.nodes) :
         /\ layoutCall.layouted[i].id = layoutCall.nodes[i].id
         /\ layoutCall.layouted[i].position =
              [x |-> 250 * PosScale * (i - 1), y |-> 100 * PosScale]
    /\ \A i, j \in 1..Len(layoutCall.layouted) :
         i # j => layoutCall.layouted[i].position # layoutCall.layouted[j].position

\* three unconnected nodes that were stored at one place have been laid out
C29_Witness ==
  /\ layoutCall.fn = "applyTreeLayout"
  /\ Len(layoutCall.nodes) = 3
  /\ \A i \in 1..3 : layoutCall.nodes[i].position = [x |-> 1800, y |-> 1100]
  /\ layoutCall.layouted[3].position = [x |-> 500 * PosScale, y |-> 100 * PosScale]

\* C30 as stated: of two trees the one with no fewer nodes gets no smaller
\* sibling spacing and no smaller rank spacing; both are at their tight value
\* for at most 20 nodes, larger above 20 nodes and larger again above 50
C30_SpacingByNodeCount ==
  layoutCall.fn = "spacing" =>
    LET a == layoutCall.smaller
        b == layoutCall.larger
    IN /\ a.nodesep <= b.nodesep
       /\ a.ranksep <= b.ranksep
       /\ a.totalNodes <= 20 => (a.nodesep = 60 * PosScale /\ a.ranksep = 40 * PosScale)
       /\ a.totalNodes > 20 => (a.nodesep > 60 * PosScale /\ a.ranksep > 40 * PosScale)
       /\ (a.totalNodes \in 21..50 /\ b.totalNodes > 50) =>
            (a.nodesep < b.nodesep /\ a.ranksep < b.ranksep)

\* C30: the sibling spacing grows with the number of nodes (60 up to 20
\* nodes, 80 up to 50, 100 above) and the rank spacing with the largest
\* number of children of one parent (40 up to 5 children, 60 up to 10, 80
\* above)
C30_SpacingScales ==
  layoutCall.fn = "spacing" =>
    LET a == layoutCall.smaller
        b == layoutCall.larger
    IN /\ a.nodesep <= b.nodesep
       /\ a.maxChildren <= b.maxChildren => a.ranksep <= b.ranksep
       /\ a.nodesep = (IF a.totalNodes <= 20 THEN 60
                        ELSE IF a.totalNodes <= 50 THEN 80 ELSE 100) * PosScale
       /\ a.ranksep = (IF a.maxChildren <= 5 THEN 40
                        ELSE IF a.maxChildren <= 10 THEN 60 ELSE 80) * PosScale

\* a small tree with a wide fan-out next to a large tree with a narrow one
C30_Witness ==
  /\ layoutCall.fn = "spacing"
  /\ layoutCall.smaller.totalNodes = 12
  /\ layoutCall.smaller.maxChildren = 11
  /\ layoutCall.larger.totalNodes = 60
  /\ layoutCall.larger.maxChildren = 1
  /\ layoutCall.smaller.nodesep < layoutCall.larger.nodesep
  /\ layoutCall.smaller.ranksep > layoutCall.larger.ranksep

\* the nodes that list n among their children
ParentsOf(f, n) == {p \in ForestIds(f) : n \in SeqToSet(f.children[p])}

RECURSIVE Ancestors(_, _)
Ancestors(f, n) ==
  ParentsOf(f, n) \cup UNION {Ancestors(f, p) : p \in ParentsOf(f, n)}

\* the nodes all of whose ancestors are expanded, in pre-order
VisibleForest(f) ==
  SelectSeq(TreeIds(f, f.roots), LAMBDA n : \A a \in Ancestors(f, n) : f.expanded[a])

\* the (parent, child) pairs of the non-root nodes of a list of ids
ParentChildPairs(f, ids) ==
  LET nonRoots == SelectSeq(ids, LAMBDA n : n \notin SeqToSet(f.roots))
  IN [i \in 1..Len(nonRoots) |->
        [source |-> CHOOSE p \in ParentsOf(f, nonRoots[i]) : TRUE,
         target |-> nonRoots[i]]]

ResultIds(r) == [i \in 1..Len(r.nodes) |-> r.nodes[i].id]

\* C31: convertToReactFlowNodes returns exactly the visible forest: the
\* nodes all of whose ancestors are expanded, in pre-order, and as edges
\* exactly the (parent, child) pairs of the non-root nodes of the result
C31_VisibleForest ==
  layoutCall.fn = "convert" =>
    /\ ResultIds(layoutCall.result) = VisibleForest(layoutCall.forest)
    /\ SeqToSet(layoutCall.result.edges) =
         SeqToSet(ParentChildPairs(layoutCall.forest, ResultIds(layoutCall.result)))

\* C31 (amended): convertToReactFlowNodes returns the visible forest in
\* pre-order up to the render cap: the first cap nodes of it, all of it
\* when it has no more than cap nodes, and as edges the (parent, child)
\* pairs of the non-root nodes of the result, in the order of the children
C31_VisibleForestUpToCap ==
  layoutCall.fn = "convert" =>
    LET visible == VisibleForest(layoutCall.forest)
        kept == IF Len(visible) <= layoutCall.cap THEN Len(visible) ELSE layoutCall.cap
    IN /\ ResultIds(layoutCall.result) = SubSeq(visible, 1, kept)
       /\ layoutCall.result.edges =
            ParentChildPairs(layoutCall.forest, ResultIds(layoutCall.result))

\* a forest with a collapsed folder that hides a node and with more visible
\* nodes than the cap was converted, and the result has an edge
C31_Witness ==
  /\ layoutCall.fn = "convert"
  /\ Len(VisibleForest(layoutCall.forest)) > layoutCall.cap
  /\ \E n \in ForestIds(layoutCall.forest) :
       n \notin SeqToSet(VisibleForest(layoutCall.forest))
  /\ layoutCall.result.edges # <<>>

\* C39: in every result of convertToReactFlowNodes, cut by the render cap
\* or not, there are no more nodes than the cap, both ends of every edge
\* are nodes of the result, and every non-root node of the result has
\* exactly one incoming edge
C39_EdgesWellFormed ==
  layoutCall.fn = "convert" =>
    LET r == layoutCall.result
        ids == SeqToSet(ResultIds(r))
    IN /\ Len(r.nodes) <= layoutCall.cap
       /\ \A i \in 1..Len(r.edges) : r.edges[i].source \in ids /\ r.edges[i].target \in ids
       /\ \A i \in 1..Len(r.nodes) :
            r.nodes[i].id \notin SeqToSet(layoutCall.forest.roots) =>
              Cardinality({j \in 1..Len(r.edges) : r.edges[j].target = r.nodes[i].id}) = 1

\* the cap cut the children of a rendered, expanded folder: one child is in
\* the result and a later one is not
C39_Witness ==
  /\ layoutCall.fn = "convert"
  /\ Len(layoutCall.result.nodes) = layoutCall.cap
  /\ \E p \in SeqToSet(ResultIds(layoutCall.result)) :
       /\ layoutCall.forest.expanded[p]
       /\ \E c, d \in SeqToSet(layoutCall.forest.children[p]) :
            /\ c \in SeqToSet(ResultIds(layoutCall.result))
            /\ d \notin SeqToSet(ResultIds(layoutCall.result))

\* C32: updateNodePosition(id, p) changes only the position of the node
\* with that id: every other node's fields, the order of the children and
\* every expanded flag are kept, and when no node has the id the forest is
\* unchanged and state.nodes is the array it was
C32_PositionUpdateFrame ==
  layoutCall.fn = "updateNodePosition" =>
    LET f == layoutCall.forest
        id == layoutCall.id
        r == layoutCall.result
    IN /\ r.nodes.roots = f.roots
       /\ r.nodes.children = f.children
       /\ r.nodes.expanded = f.expanded
       /\ \A n \in NodeIds \ {id} : r.nodes.position[n] = f.position[n]
       /\ id \in ForestIds(f) => r.nodes.position[id] = layoutCall.position
       /\ id \notin ForestIds(f) => r.nodes = f /\ ~r.changed

\* a folder with a child elsewhere was moved to a new position
C32_Witness ==
  /\ layoutCall.fn = "updateNodePosition"
  /\ layoutCall.id = "A"
  /\ layoutCall.forest.position["A"] # layoutCall.position
  /\ layoutCall.forest.position["C"] # layoutCall.position
  /\ layoutCall.result.nodes.position["A"] = layoutCall.position

\* the query without the blanks around it
Stripped(query) ==
  LET inked == {i \in 1..Len(query) : query[i] # " "}
  IN IF inked = {} THEN <<>>
     ELSE SubSeq(query,
                 CHOOSE i \in inked : \A j \in inked : i <= j,
                 CHOOSE i \in inked : \A j \in inked : j <= i)

SameLetter(c, d) ==
  \/ c = d
  \/ {c, d} \in {{"a", "A"}, {"b", "B"}}

ContainsIgnoringCase(name, part) ==
  \E offset \in 0..(Len(name) - Len(part)) :
    \A k \in 1..Len(part) : SameLetter(name[offset + k], part[k])

\* C33: after applySearchQuery with a non-blank query on the local
\* connector, highlightedNodeIds is exactly the set of nodes whose name
\* contains the trimmed query, case ignored, and every such node has all of
\* its ancestors expanded; a blank query clears the highlights and changes
\* no expanded flag
C33_SearchAutoExpand ==
  layoutCall.fn = "applySearchQuery" =>
    LET f == layoutCall.forest
        r == layoutCall.result
        part == Stripped(layoutCall.query)
        named == {n \in ForestIds(f) : ContainsIgnoringCase(NodeName[n], part)}
    IN IF part = <<>>
       THEN r.highlightedNodeIds = <<>> /\ r.nodes.expanded = f.expanded
       ELSE /\ SeqToSet(r.highlightedNodeIds) = named
            /\ \A n \in named : \A a \in Ancestors(r.nodes, n) : r.nodes.expanded[a]

\* a query typed with a blank around it matched a node inside a collapsed
\* folder, and the node is in the visible forest afterwards
C33_Witness ==
  /\ layoutCall.fn = "applySearchQuery"
  /\ Stripped(layoutCall.query) # layoutCall.query
  /\ \E i \in 1..Len(layoutCall.result.highlightedNodeIds) :
       LET n == layoutCall.result.highlightedNodeIds[i]
       IN /\ n \notin SeqToSet(VisibleForest(layoutCall.forest))
          /\ n \in SeqToSet(VisibleForest(layoutCall.result.nodes))

\* a step in which a loadConnectorRoot call ends
LoadEnds == loadCall.pc \in {"fetch", "delay"} /\ loadCall'.pc = "done"

\* C34: loadConnectorRoot ends with isLoadingNodes = false on every path:
\* with the converted root as nodes when a fetch succeeded, with the local
\* directory and activeConnector 'local-fs' when the Everything fetch had
\* failed, and with no nodes when every fetch failed; every call ends
C34_LoadAlwaysFinishes ==
  /\ [][LoadEnds =>
          LET last == loadCall'.settled
          IN /\ ~isLoadingNodes'
             /\ (last.outcome = "resolved" /\ last.site = "everything") =>
                  /\ storeNodes' = convertEverythingListResponse
                  /\ activeConnector' = "everything-sdk"
             /\ (last.outcome = "resolved" /\ last.site = "local") =>
                  storeNodes' = convertDirectoryResponse
             /\ (last.outcome = "resolved" /\ last.site \in {"fallback", "lastResort"}) =>
                  /\ storeNodes' = convertDirectoryResponse
                  /\ activeConnector' = "local-fs"
             /\ last.outcome = "rejected" =>
                  /\ last.site = "lastResort"
                  /\ storeNodes' = EmptyForest]_vars
  /\ (loadCall.pc \in {"fetch", "delay"}) ~> (loadCall.pc = "done" /\ ~isLoadingNodes)

\* a call for the Everything connector has ended on the local directory
\* after the Everything fetch failed three times
C34_Witness ==
  /\ loadCall.pc = "done"
  /\ effectPending
  /\ cause = "load"
  /\ loadCall.settled.site = "fallback"
  /\ loadCall.settled.outcome = "resolved"
  /\ activeConnector = "local-fs"
  /\ storeNodes = convertDirectoryResponse
  /\ ~isLoadingNodes

\* C35: retryFetch(fn, retries, delay) calls fn at most retries times,
\* returns the result of the first call that succeeds without calling fn
\* again, rejects with the error of the last call after retries failures in
\* a row, and always terminates
C35_RetryFetch ==
  /\ [](/\ loadCall.calls <= loadCall.retries
        /\ loadCall.settled.outcome = "resolved" =>
             /\ loadCall.settled.calls <= loadCall.settled.retries
             /\ Len(loadCall.settled.log) = loadCall.settled.calls - 1
             /\ loadCall.settled.result = loadCall.settled.calls
        /\ loadCall.settled.outcome = "rejected" =>
             /\ loadCall.settled.calls = loadCall.settled.retries
             /\ Len(loadCall.settled.log) = loadCall.settled.retries
             /\ loadCall.settled.error = loadCall.settled.log[loadCall.settled.retries])
  /\ \A site \in {"everything", "fallback", "local", "lastResort"} :
       (loadCall.pc \in {"fetch", "delay"} /\ loadCall.site = site)
         ~> (loadCall.pc = "done" \/ loadCall.site # site)

\* a retryFetch of three tries has rejected after three failures, the
\* first with another error than the last
C35_Witness ==
  /\ loadCall.settled.outcome = "rejected"
  /\ loadCall.settled.retries = 3
  /\ loadCall.settled.calls = 3
  /\ loadCall.settled.log[1] # loadCall.settled.log[3]
  /\ loadCall.settled.error = loadCall.settled.log[3]

\* C40: with the everything-sdk connector, once every request of
\* overlapping applySearchQuery calls has settled, searchMatches holds the
\* results of the query issued last, the one in searchQuery, and
\* searchLoading is false
C40_LatestQueryResults ==
  (searchRequests = {} /\ searchIssued.outcome \in {"resolved", "cleared"}) =>
    /\ searchMatches = IF trim(searchQuery) = <<>> THEN <<>>
                       ELSE searchEverything(trim(searchQuery))
    /\ ~searchLoading

\* no step of the canvas is pending: no run of the effect, no animation
\* frame, no commit and no settle delay, and no drag under way
Quiescent ==
  /\ ~effectPending
  /\ rafQueue = <<>>
  /\ commitQueue = <<>>
  /\ clearTimers = 0
  /\ Idle

\* the effect, were it run now, would lay out: its structural change or its
\* stacked nodes are still there
LayoutOutstanding ==
  /\ storeNodes.roots # <<>>
  /\ ~isJustExpandCollapse(storeNodes, previousStoreNodesRef)
  /\ needsLayout(storeNodes, previousStoreNodesRef, FALSE, FALSE)

\* C36: a layout that was skipped because the drag state was Dragging or
\* Settling is not lost: once the state is Idle again a layout pass runs for
\* it without any further external event, so no state in which nothing of
\* the canvas is pending has the skipped layout still outstanding
C36_SuppressedLayoutRuns == ~(Quiescent /\ skippedLayout /\ LayoutOutstanding)

\* the nodes that take part in the drag under way: those whose positions
\* were captured when it started
DraggedIds == {d.id : d \in dragStartPositionsRef}

\* C37: the commit of a drag stop adds a node to the manually moved set, or
\* writes its stored position, only if the node is the dragged one or was
\* in the selection captured when the drag started
C37_CommitMarksOnlyDragged ==
  [][CommitStep =>
       \A n \in NodeIds :
         (\/ n \in manuallyMovedNodesRef' \ manuallyMovedNodesRef
          \/ storeNodes'.position[n] # storeNodes.position[n]) => n \in DraggedIds]_vars

\* C38: reconciliation quiesces: from any forest, while the drag state is
\* Idle, the runs of the effect that its own updateNodePosition calls set
\* off are finitely many and end with a run that writes no position; the
\* run that follows a writing run writes none
C38_ReconciliationQuiesces ==
  layoutCall.fn = "chain" => layoutCall.writing <= 1

\* the effect laid out nodes that were rendered stacked, and its run came
\* to rest
C38_Witness ==
  /\ layoutCall.fn = "chain"
  /\ layoutCall.stacked
  /\ layoutCall.rendered
  /\ layoutCall.first = "layout"
  /\ layoutCall.writing <= 1
  /\ \E i \in 1..Len(layoutCall.nodes) : layoutCall.nodes[i].position.x = 250
====
